---- MODULE Spec2Model ----
(***************************************************************************)
(* MQClient: the RabbitMQ backend's message_generator (a Python generator  *)
(* driven by next(), throw() and close()), the pika channel it talks to,   *)
(* and the Queue facade's scoped receive session layered above it.         *)
(*                                                                         *)
(* A delivery is identified by its delivery tag.  Tags are drawn from one  *)
(* counter, so a tag stands for the pair (channel, delivery tag) and is    *)
(* never reused: a redelivered message gets a new tag.                     *)
(* Caller exceptions are instances of Exception (the class the generator's *)
(* except clause catches).                                                 *)
(*                                                                         *)
(* The specifications share the definitions of the adapter:                *)
(*   Spec       one Queue, its receive sessions (Queue.recv)               *)
(*   SpecOne    two Queue objects, send and Queue.recv_one, with the codec *)
(*   SpecMulti  one publisher and several subscriber threads (recv)        *)
(*   SpecTake   threads that call recv_one, and a Queue that receives what *)
(*              they left                                                  *)
(*   SpecNack   get_message / reject_message / ack_message in a loop that  *)
(*              keeps running (with fairness)                              *)
(*   SpecHandle a handle used directly: connect, close and the operations  *)
(*   SpecPair   the same run with prefetch p and with prefetch 1           *)
(*   SpecGen    a sub handle whose generators are driven directly: for    *)
(*              loop, gen.throw(), break, failing channel calls            *)
(*   SpecPoll   a sub handle polled with get_message, acks in any order    *)
(*   SpecDrain  one generator drained by a for loop (with fairness)        *)
(***************************************************************************)
EXTENDS Integers, Sequences, FiniteSets, TLC

\* Bounds of the model.
MaxMsgs == 3
MaxScopes == 2
MaxRaises == 1
MaxFaults == 1
MaxPrefetch == 2
MaxOneMsgs == 2
MaxSubs == 3
MaxHeld == 2
MaxOps == 4

VARIABLES
    auto_ack,         \* message_generator(auto_ack=...)
    propagate_error,  \* message_generator(propagate_error=...)
    prefetch,         \* RabbitMQSub.prefetch
    mock,             \* TRUE: pika is mocked (unit tests), FALSE: a RabbitMQ broker
    sent,             \* number of messages published so far
    ready,            \* broker queue: payloads waiting for delivery
    deliv,            \* deliv[t] is the payload delivered under tag t
    buffer,           \* tags pushed to the consumer and not yet returned by consume()
    unacked,          \* tags delivered on the open channel, neither acked nor nacked
    consuming,        \* the channel has an active consumer
    connection,       \* Queue's sub handle: "none", or its connection "open"
    gen,              \* the session's generator: [pc, tag]
    sess,             \* a receive session object exists
    orphan,           \* a generator suspended at its yield on the open channel was dropped
    cpc,              \* caller position: "out", "in", "body", "ended"
    log,              \* calls made on the adapter and scope events, in order
    scopes,           \* scope entries so far
    raises,           \* caller exceptions so far
    faults,           \* upstream errors so far
    values,           \* the values the application sends, in order
    body,             \* body[p] is the byte payload of the p-th message published
    other,            \* broker queue "q-fail": payloads waiting for delivery
    nameB,            \* the queue name of Queue object B ("q" is A's)
    handles,          \* handles[o]: which raw handles Queue object o has open
    held,             \* the message a recv_one scope holds: [obj, tag]
    got,              \* the values handed to the caller, in order
    subs,             \* concurrent subscribers: subs[s] is the state of thread s
    subq              \* Queue A's sub handle: its prefetch attribute and the
                      \* prefetch count its channel has at the broker

vars == <<auto_ack, propagate_error, prefetch, mock, sent, ready, deliv, buffer,
          unacked, consuming, connection, gen, sess, orphan, cpc, log, scopes,
          raises, faults, values, body, other, nameB, handles, held, got,
          subs, subq>>

\* What the receive path of Queue A leaves alone.
facade == <<values, other, nameB, handles, held, subs>>

config == <<auto_ack, propagate_error, prefetch, mock>>

NoGen == [pc |-> "done", tag |-> 0]
NewGen == [pc |-> "new", tag |-> 0]

Min(S) == CHOOSE x \in S : \A y \in S : x <= y

Ev(op, id) == [op |-> op, id |-> id]

\* The state the generator and the channel work on, as one record.
\* (tear: the calls of the teardown, "nack" or "cancel", that raise in this
\* step; failed: one of them has raised.)
World ==
    [ready |-> ready, deliv |-> deliv, buffer |-> buffer, unacked |-> unacked,
     consuming |-> consuming, log |-> log, gen |-> gen, item |-> 0, out |-> "none",
     channel |-> connection # "none", conn |-> connection, qos |-> subq.qos,
     tear |-> {}, failed |-> FALSE]

Log(w, op, id) == [w EXCEPT !.log = Append(@, Ev(op, id))]

\* The broker pushes waiting messages to the consumer: on a real channel at
\* most as many unacknowledged deliveries as the prefetch count set by
\* basic_qos (0: no limit); the mocked channel hands its list over one item
\* at a time.
RECURSIVE Fill(_)
Fill(w) ==
    IF \/ w.ready = {}
       \/ (IF mock THEN Len(w.buffer) >= 1
           ELSE w.qos # 0 /\ Cardinality(w.unacked) >= w.qos)
    THEN w
    ELSE LET p == Min(w.ready)
             t == Len(w.deliv) + 1
         IN  Fill([w EXCEPT !.ready = @ \ {p},
                            !.deliv = Append(@, p),
                            !.buffer = Append(@, t),
                            !.unacked = @ \cup {t}])

\* Mutant: the client hands over the newest buffered delivery first.
consume_Newest(w, fail) ==
    IF fail THEN [w EXCEPT !.item = -1]
    ELSE LET f == Fill([w EXCEPT !.consuming = TRUE])
         IN  IF f.buffer = <<>> THEN [f EXCEPT !.item = 0]
             ELSE [f EXCEPT !.item = f.buffer[Len(f.buffer)],
                            !.buffer = SubSeq(f.buffer, 1, Len(f.buffer) - 1)]

\* One step of the iterator channel.consume(queue, inactivity_timeout):
\* item = tag of the next delivery, 0 for the (None, None, None) inactivity
\* marker, -1 when the broker raises.
consume(w, fail) ==
    IF fail THEN [w EXCEPT !.item = -1]
    ELSE LET f == Fill([w EXCEPT !.consuming = TRUE])
         IN  IF f.buffer = <<>> THEN [f EXCEPT !.item = 0]
             ELSE [f EXCEPT !.item = Head(f.buffer), !.buffer = Tail(f.buffer)]

\* Mutant: the ack is recorded by the client and never settles the delivery
\* at the broker.
basic_ack_Lost(w, t) ==
    Log(w, "ack", t)

\* channel.basic_ack(delivery_tag)
basic_ack(w, t) ==
    Log([w EXCEPT !.unacked = @ \ {t}], "ack", t)

\* Mutant: the rejection is issued with requeue off, the broker drops the
\* message.
basic_nack_Discard(w, t) ==
    Log([w EXCEPT !.unacked = @ \ {t}], "nack", t)

\* Mutant: the rejection reaches the broker as an acknowledgement.
basic_nack_AsAck(w, t) ==
    Log([w EXCEPT !.unacked = @ \ {t}], "ack", t)

\* channel.basic_nack(delivery_tag): requeue defaults to True, the broker
\* puts the message back at its original position.  A call that raises
\* settles nothing.
basic_nack(w, t) ==
    IF "nack" \in w.tear THEN [Log(w, "nackfail", t) EXCEPT !.failed = TRUE]
    ELSE Log([w EXCEPT !.unacked = @ \ {t},
                       !.ready = IF mock \/ t \notin w.unacked THEN @
                                 ELSE @ \cup {w.deliv[t]}],
             "nack", t)

Range(s) == {s[i] : i \in DOMAIN s}

\* Mutant: the deliveries still buffered in the client are dropped, not
\* requeued.
cancel_DropBuffered(w) ==
    Log([w EXCEPT !.consuming = FALSE,
                  !.buffer = <<>>,
                  !.unacked = @ \ Range(w.buffer)],
        "cancel", 0)

\* channel.cancel(): the consumer is cancelled, deliveries still buffered in
\* the client are rejected with requeue.  A call that raises cancels
\* nothing.
cancel(w) ==
    IF "cancel" \in w.tear THEN [Log(w, "cancelfail", 0) EXCEPT !.failed = TRUE]
    ELSE Log([w EXCEPT !.consuming = FALSE,
                       !.buffer = <<>>,
                       !.unacked = @ \ Range(w.buffer),
                       !.ready = IF mock THEN @
                                 ELSE @ \cup {w.deliv[t] : t \in Range(w.buffer)}],
             "cancel", 0)

\* The generator ends: its finally clause has run.  An exception raised by
\* basic_nack in the except clause or by cancel in the finally clause is
\* what leaves the generator ("teardown"), whatever was on its way out.
Finish(w, out) ==
    [w EXCEPT !.gen = NoGen, !.out = IF w.failed THEN "teardown" ELSE out]

\* Mutant: an error of the broker ends the loop like the inactivity marker.
consume_loop_ErrorAsTimeout(w, fail) ==
    LET c == consume(w, fail)
    IN  IF c.item = -1 THEN Finish(cancel(Log(c, "error", 0)), "stop")
        ELSE IF c.item = 0
             THEN Finish(cancel(Log(c, "timeout", Cardinality(c.ready))), "stop")
        ELSE [Log(c, "yield", c.item) EXCEPT
                 !.gen = [pc |-> "yield", tag |-> c.item], !.out = "yield"]

\* Mutant: the loop is left at the inactivity marker without the cancel of
\* the finally clause.
consume_loop_NoCancelAtTimeout(w, fail) ==
    LET c == consume(w, fail)
    IN  IF c.item = -1 THEN Finish(cancel(Log(c, "error", 0)), "error")
        ELSE IF c.item = 0
             THEN Finish(Log(c, "timeout", Cardinality(c.ready)), "stop")
        ELSE [Log(c, "yield", c.item) EXCEPT
                 !.gen = [pc |-> "yield", tag |-> c.item], !.out = "yield"]

\* The for statement asks consume() for the next item, then yields it,
\* or leaves the loop; the finally clause cancels the consumer.
\* (The "timeout" event records how many messages were waiting in the
\* broker's queue when the inactivity marker arrived.)
consume_loop(w, fail) ==
    LET c == consume(w, fail)
    IN  IF c.item = -1 THEN Finish(cancel(Log(c, "error", 0)), "error")
        ELSE IF c.item = 0
             THEN Finish(cancel(Log(c, "timeout", Cardinality(c.ready))), "stop")
        ELSE [Log(c, "yield", c.item) EXCEPT
                 !.gen = [pc |-> "yield", tag |-> c.item], !.out = "yield"]

\* Mutant: the auto_ack flag is tested the wrong way round.
next_AckInverted(w, fail) ==
    CASE w.gen.pc = "new" ->
            IF ~w.channel THEN Finish(Log(w, "error", 0), "error")
            ELSE consume_loop(w, fail)
      [] w.gen.pc = "yield" ->
            consume_loop(IF ~auto_ack THEN basic_ack(w, w.gen.tag) ELSE w, fail)
      [] OTHER -> Finish(w, "stop")

\* Mutant: the generator acks only when the stream has a further message.
next_AckAfterFetch(w, fail) ==
    CASE w.gen.pc = "new" ->
            IF ~w.channel THEN Finish(Log(w, "error", 0), "error")
            ELSE consume_loop(w, fail)
      [] w.gen.pc = "yield" ->
            LET r == consume_loop(w, fail)
            IN  IF auto_ack /\ r.out = "yield" THEN basic_ack(r, w.gen.tag) ELSE r
      [] OTHER -> Finish(w, "stop")

\* Mutant: the generator acks whatever auto_ack says.
next_AckAlways(w, fail) ==
    CASE w.gen.pc = "new" ->
            IF ~w.channel THEN Finish(Log(w, "error", 0), "error")
            ELSE consume_loop(w, fail)
      [] w.gen.pc = "yield" -> consume_loop(basic_ack(w, w.gen.tag), fail)
      [] OTHER -> Finish(w, "stop")

\* Mutant: the ack carries the tag before the one of the message yielded.
next_AckWrongTag(w, fail) ==
    CASE w.gen.pc = "new" ->
            IF ~w.channel THEN Finish(Log(w, "error", 0), "error")
            ELSE consume_loop(w, fail)
      [] w.gen.pc = "yield" ->
            consume_loop(IF auto_ack THEN basic_ack(w, w.gen.tag - 1) ELSE w, fail)
      [] OTHER -> Finish(w, "stop")

\* next(gen)
message_generator_next(w, fail) ==
    CASE w.gen.pc = "new" ->
            IF ~w.channel THEN Finish(Log(w, "error", 0), "error")
            ELSE consume_loop(w, fail)
      [] w.gen.pc = "yield" ->
            consume_loop(IF auto_ack THEN basic_ack(w, w.gen.tag) ELSE w, fail)
      [] OTHER -> Finish(w, "stop")

\* Mutant: the ack is not in the else clause of the try, so it also runs
\* after a suppressed exception.
throw_AckAfterNack(w, fail) ==
    CASE w.gen.pc = "yield" ->
            LET n == basic_nack(w, w.gen.tag)
            IN  IF propagate_error THEN Finish(cancel(n), "raise")
                ELSE consume_loop(IF auto_ack THEN basic_ack(n, w.gen.tag) ELSE n, fail)
      [] OTHER -> Finish(w, "raise")

\* Mutant: the nack sits in the finally clause, after the cancel.
throw_CancelBeforeNack(w, fail) ==
    CASE w.gen.pc = "yield" ->
            IF propagate_error THEN Finish(basic_nack(cancel(w), w.gen.tag), "raise")
            ELSE consume_loop(basic_nack(w, w.gen.tag), fail)
      [] OTHER -> Finish(w, "raise")

\* Mutant: the previous message is acked again before the nack.
throw_AckPrevious(w, fail) ==
    CASE w.gen.pc = "yield" ->
            LET a == IF auto_ack /\ w.gen.tag > 1 THEN basic_ack(w, w.gen.tag - 1) ELSE w
                n == basic_nack(a, w.gen.tag)
            IN  IF propagate_error THEN Finish(cancel(n), "raise")
                ELSE consume_loop(n, fail)
      [] OTHER -> Finish(w, "raise")

\* Mutant: the nack is issued only on the suppressing path.
throw_NackOnlyIfSuppressed(w, fail) ==
    CASE w.gen.pc = "yield" ->
            IF propagate_error THEN Finish(cancel(w), "raise")
            ELSE consume_loop(basic_nack(w, w.gen.tag), fail)
      [] OTHER -> Finish(w, "raise")

\* Mutant: the consumer is cancelled on the suppressing path too, before the
\* loop goes on.
throw_CancelOnSuppress(w, fail) ==
    CASE w.gen.pc = "yield" ->
            LET n == basic_nack(w, w.gen.tag)
            IN  IF propagate_error \/ n.failed THEN Finish(cancel(n), "raise")
                ELSE consume_loop(cancel(n), fail)
      [] OTHER -> Finish(w, "raise")

\* Mutant: the nack carries the tag of the message yielded before.
throw_NackStale(w, fail) ==
    CASE w.gen.pc = "yield" ->
            LET n == basic_nack(w, IF w.gen.tag > 1 THEN w.gen.tag - 1 ELSE w.gen.tag)
            IN  IF propagate_error \/ n.failed THEN Finish(cancel(n), "raise")
                ELSE consume_loop(n, fail)
      [] OTHER -> Finish(w, "raise")

\* gen.throw(exc), exc an Exception: the except clause nacks, then re-raises
\* or goes on with the loop; a basic_nack that raises leaves the except
\* clause at once.
message_generator_throw(w, fail) ==
    CASE w.gen.pc = "yield" ->
            LET n == basic_nack(w, w.gen.tag)
            IN  IF propagate_error \/ n.failed THEN Finish(cancel(n), "raise")
                ELSE consume_loop(n, fail)
      [] OTHER -> Finish(w, "raise")

\* Mutant: the except clause catches GeneratorExit too, the message held is
\* nacked when the generator is closed.
close_AsException(w) ==
    IF w.gen.pc = "yield" THEN Finish(cancel(basic_nack(w, w.gen.tag)), "closed")
    ELSE Finish(w, "closed")

\* gen.close(): GeneratorExit is raised at the yield, the finally clause runs
message_generator_close(w) ==
    IF w.gen.pc = "yield" THEN Finish(cancel(w), "closed")
    ELSE Finish(w, "closed")

\* An application value: its type and its content as a sequence of numbers
\* (character codes, elements, 0/1 for a truth value).
Val(type, val) == [type |-> type, val |-> val]

\* The values the tests send.
DATA_LIST ==
    << Val("dict", <<97, 102, 98, 3, 4>>), Val("int", <<1>>), Val("str", <<50>>),
       Val("list", <<1, 2, 3, 4>>), Val("bool", <<0>>), Val("none", <<>>) >>

\* The value domain the round trip is checked on: the number 1, the text
\* "1", a list and the null value.
Values == {Val("int", <<1>>), Val("str", <<49>>), Val("list", <<1, 2, 3, 4>>),
           Val("none", <<>>)}

Types == <<"none", "bool", "int", "str", "list", "dict">>
TypeCode(type) == CHOOSE c \in DOMAIN Types : Types[c] = type

\* The codec: a type byte, a length byte, the content.
Encode(v) == <<TypeCode(v.type), Len(v.val)>> \o v.val
Decode(b) == Val(Types[b[1]], SubSeq(b, 3, 2 + b[2]))

\* The Queue objects of the application and the queue each one names.
Objs == {"A", "B"}
NameOf(o) == IF o = "A" THEN "q" ELSE nameB
NoHandles == [pub |-> FALSE, sub |-> FALSE]
NoMsg == [obj |-> "A", tag |-> 0]

\* Mutant: the publisher's buffer is not refilled, the previous body is
\* sent again.
send_message_Stale(n, msg) ==
    [ready |-> IF n = "q" THEN ready \cup {Len(body) + 1} ELSE ready,
     other |-> IF n = "q" THEN other ELSE other \cup {Len(body) + 1},
     body |-> Append(body, IF body = <<>> THEN msg ELSE body[Len(body)])]

\* Mutant: the routing key is not the queue's name.
send_message_WrongQueue(n, msg) ==
    [ready |-> IF n # "q" THEN ready \cup {Len(body) + 1} ELSE ready,
     other |-> IF n # "q" THEN other ELSE other \cup {Len(body) + 1},
     body |-> Append(body, msg)]

\* send_message: basic_publish(routing_key = queue.queue, body = msg); the
\* message joins the end of the queue of that name.
send_message(n, msg) ==
    [ready |-> IF n = "q" THEN ready \cup {Len(body) + 1} ELSE ready,
     other |-> IF n = "q" THEN other ELSE other \cup {Len(body) + 1},
     body |-> Append(body, msg)]

\* Mutant: the message obtained is left in the queue.
get_message_NoRemove(w) ==
    IF ~w.channel THEN [w EXCEPT !.out = "error"]
    ELSE IF w.ready = {} THEN Log([w EXCEPT !.item = 0], "get", 0)
    ELSE LET t == Len(w.deliv) + 1
         IN  Log([w EXCEPT !.deliv = Append(@, Min(w.ready)),
                           !.unacked = @ \cup {t}, !.item = t], "get", t)

\* Mutant: the message is taken from a consumer, to which the broker pushes
\* deliveries up to the prefetch count.
get_message_Consuming(w) ==
    LET f == Fill(w)
    IN  IF ~w.channel THEN [w EXCEPT !.out = "error"]
        ELSE IF f.buffer = <<>> THEN Log([f EXCEPT !.item = 0], "get", 0)
        ELSE Log([f EXCEPT !.item = Head(f.buffer), !.buffer = Tail(f.buffer)],
                 "get", Head(f.buffer))

\* get_message: one basic_get on the queue's name; item = tag of the
\* message obtained, 0 when the queue has none (the function returns None).
\* A basic_get is not subject to the prefetch limit.
get_message(w) ==
    IF ~w.channel THEN [w EXCEPT !.out = "error"]
    ELSE IF w.ready = {} THEN Log([w EXCEPT !.item = 0], "get", 0)
    ELSE LET t == Len(w.deliv) + 1
         IN  Log([w EXCEPT !.ready = @ \ {Min(w.ready)},
                           !.deliv = Append(@, Min(w.ready)),
                           !.unacked = @ \cup {t}, !.item = t], "get", t)

\* Mutant: the message is rejected instead of acknowledged.
ack_message_AsReject(w, t) ==
    IF ~w.channel THEN [w EXCEPT !.out = "error"] ELSE basic_nack(w, t)

\* ack_message: basic_ack(msg_id)
ack_message(w, t) ==
    IF ~w.channel THEN [w EXCEPT !.out = "error"] ELSE basic_ack(w, t)

\* reject_message: basic_nack(msg_id)
reject_message(w, t) ==
    IF ~w.channel THEN [w EXCEPT !.out = "error"] ELSE basic_nack(w, t)

\* RabbitMQ.close(): connection.close(); the broker requeues what the
\* connection left unacknowledged.
close(w) ==
    Log([w EXCEPT !.consuming = FALSE,
                  !.buffer = <<>>,
                  !.unacked = {},
                  !.ready = IF mock THEN @
                            ELSE @ \cup {w.deliv[t] : t \in w.unacked}],
        "close", 0)

\* RabbitMQSub(address, name): a handle that is not connected, with the
\* default prefetch of RabbitMQ.__init__.
RabbitMQSub_init == [prefetch |-> 1, qos |-> 0]

\* RabbitMQSub.connect(): basic_qos(prefetch_count = self.prefetch)
RabbitMQSub_connect(q) == [q EXCEPT !.qos = q.prefetch]

\* Mutant: the handle is connected before the prefetch argument is stored.
create_sub_queue_ConnectFirst(p) ==
    [RabbitMQSub_connect(RabbitMQSub_init) EXCEPT !.prefetch = p]

\* create_sub_queue(address, name, prefetch = p)
create_sub_queue(p) ==
    RabbitMQSub_connect([RabbitMQSub_init EXCEPT !.prefetch = p])

\* (The unit tests, which mock the channel, create the sub queue with the
\* default prefetch; the mocked channel does not look at it.)
Init ==
    /\ auto_ack \in BOOLEAN
    /\ propagate_error \in BOOLEAN
    /\ mock \in BOOLEAN
    /\ prefetch \in (IF mock THEN {1} ELSE 1..MaxPrefetch)
    /\ sent = 0
    /\ ready = {}
    /\ deliv = <<>>
    /\ buffer = <<>>
    /\ unacked = {}
    /\ consuming = FALSE
    /\ connection = "none"
    /\ gen = NoGen
    /\ sess = FALSE
    /\ orphan = FALSE
    /\ cpc = "out"
    /\ log = <<>>
    /\ scopes = 0
    /\ raises = 0
    /\ faults = 0
    /\ values = DATA_LIST
    /\ body = <<>>
    /\ other = {}
    /\ nameB = "q"
    /\ handles = [o \in Objs |-> NoHandles]
    /\ held = NoMsg
    /\ got = <<>>
    /\ subs = <<>>
    /\ subq = RabbitMQSub_init

\* Write a world back into the variables.
Commit(w) ==
    /\ ready' = w.ready
    /\ deliv' = w.deliv
    /\ buffer' = w.buffer
    /\ unacked' = w.unacked
    /\ consuming' = w.consuming
    /\ log' = w.log
    /\ gen' = w.gen

\* Queue.send(value) on Queue object o: encode, open the pub handle when
\* there is none (create_pub_queue), send_message.
QueueSend(o) ==
    /\ sent < Len(values)
    /\ LET b == send_message(NameOf(o), Encode(values[sent + 1]))
       IN  /\ ready' = b.ready
           /\ other' = b.other
           /\ body' = b.body
    /\ sent' = sent + 1
    /\ handles' = [handles EXCEPT ![o].pub = TRUE]

\* The application sends its next value through Queue A.
Send ==
    /\ sent < MaxMsgs
    /\ QueueSend("A")
    /\ UNCHANGED <<config, subq, deliv, buffer, unacked, consuming, connection, gen,
                   sess, orphan, cpc, log, scopes, raises, faults, values,
                   nameB, held, got, subs>>

\* Queue.recv(): the sub handle is opened when there is none
\* (create_sub_queue), and a new session with a new generator is returned.
\* (A session that replaces one that was never entered changes nothing.)
QueueRecv ==
    /\ cpc = "out"
    /\ IF log = <<>> THEN TRUE ELSE log[Len(log)].op # "session"
    /\ connection' = "open"
    /\ log' = (IF connection = "none" THEN Append(log, Ev("connect", 0)) ELSE log)
                 \o <<Ev("session", 0)>>
    /\ subq' = (IF connection = "none" THEN create_sub_queue(prefetch) ELSE subq)
    /\ sess' = TRUE
    /\ gen' = NewGen
    /\ orphan' = (orphan \/ (sess /\ gen.pc = "yield"))
    /\ UNCHANGED <<config, sent, ready, deliv, buffer, unacked, consuming, cpc,
                   scopes, raises, faults, facade, body, got>>

\* The scope of the session is entered.
Enter ==
    /\ cpc = "out"
    /\ sess
    /\ scopes < MaxScopes
    /\ scopes' = scopes + 1
    /\ cpc' = "in"
    /\ log' = Append(log, Ev("enter", 0))
    /\ UNCHANGED <<config, subq, sent, ready, deliv, buffer, unacked, consuming,
                   connection, gen, sess, orphan, raises, faults, facade, body, got>>

\* The facade closes and forgets its sub handle.
CloseSub(w) == IF connection = "open" THEN close(w) ELSE w

\* One step of the session's iterator: the caller returns control to the
\* generator (from the message it holds, if any) and asks for the next
\* value.  An upstream error leaves the scope: it is always propagated and
\* the sub handle is closed.
IterNext ==
    /\ cpc \in {"in", "body"}
    /\ \E fail \in BOOLEAN :
         /\ fail => faults < MaxFaults
         /\ faults' = IF fail THEN faults + 1 ELSE faults
         /\ LET r == message_generator_next(Log(World, "next", gen.tag), fail)
            IN  CASE r.out = "yield" ->
                       /\ Commit(Log(r, "recv", r.gen.tag))
                       /\ got' = Append(got, Decode(body[r.deliv[r.gen.tag]]))
                       /\ cpc' = "body"
                       /\ UNCHANGED <<connection, orphan>>
                  [] r.out = "stop" ->
                       /\ Commit(r)
                       /\ cpc' = "ended"
                       /\ UNCHANGED <<connection, orphan, got>>
                  [] OTHER ->
                       /\ Commit(Log(CloseSub(message_generator_throw(r, FALSE)),
                                     "reraise", 0))
                       /\ cpc' = "out"
                       /\ connection' = "none"
                       /\ orphan' = FALSE
                       /\ UNCHANGED got
    /\ UNCHANGED <<config, subq, sent, sess, scopes, raises, facade, body>>

\* The caller raises while it holds a message: the scope exits with the
\* exception, which the session throws into the generator.
Raise ==
    /\ cpc = "body"
    /\ raises < MaxRaises
    /\ raises' = raises + 1
    /\ \E fail \in BOOLEAN :
         /\ fail => (faults < MaxFaults /\ ~propagate_error)
         /\ faults' = IF fail THEN faults + 1 ELSE faults
         /\ LET r == message_generator_throw(Log(World, "raised", gen.tag), fail)
            IN  IF propagate_error \/ r.out = "error"
                THEN /\ Commit(Log(CloseSub(r), "reraise", 0))
                     /\ connection' = "none"
                     /\ orphan' = FALSE
                ELSE /\ Commit(Log(r, "suppress", 0))
                     /\ UNCHANGED <<connection, orphan>>
    /\ cpc' = "out"
    /\ UNCHANGED <<config, subq, sent, sess, scopes, facade, body, got>>

\* The scope exits without an exception: at the end of the stream, or when
\* the caller leaves the loop early.
ExitNormal ==
    /\ cpc \in {"in", "body", "ended"}
    /\ Commit(Log(CloseSub(message_generator_close(World)), "exit", 0))
    /\ connection' = "none"
    /\ orphan' = FALSE
    /\ cpc' = "out"
    /\ UNCHANGED <<config, subq, sent, sess, scopes, raises, faults, facade, body, got>>

\* The runtime finalizes a dropped generator that was suspended at its
\* yield: close() runs its finally clause on the channel it was created on
\* (a generator whose sub handle was closed meanwhile is no orphan any more).
Finalize ==
    /\ orphan
    /\ orphan' = FALSE
    /\ LET w == cancel(World)
       IN  /\ ready' = w.ready
           /\ buffer' = w.buffer
           /\ unacked' = w.unacked
           /\ consuming' = w.consuming
           /\ log' = w.log
    /\ UNCHANGED <<config, subq, sent, deliv, connection, gen, sess, cpc, scopes,
                   raises, faults, facade, body, got>>

\* The queue named n at the broker.
ReadyOf(n) == IF n = "q" THEN ready ELSE other
ObjId(o) == IF o = "A" THEN 1 ELSE 2

\* The world that the sub handle of Queue object o works on.
WorldOf(o) ==
    [World EXCEPT !.ready = ReadyOf(NameOf(o)), !.channel = handles[o].sub]

\* Write back the world of Queue object o.
CommitOne(o, w) ==
    /\ IF NameOf(o) = "q" THEN ready' = w.ready /\ UNCHANGED other
                          ELSE other' = w.ready /\ UNCHANGED ready
    /\ deliv' = w.deliv
    /\ unacked' = w.unacked
    /\ log' = w.log

\* The application sends its next value through one of its Queue objects.
SendOne ==
    /\ \E o \in Objs : QueueSend(o)
    /\ UNCHANGED <<config, subq, deliv, buffer, unacked, consuming, connection, gen,
                   sess, orphan, cpc, log, scopes, raises, faults, values,
                   nameB, held, got, subs>>

\* Queue.recv_one() on object o, scope entry: the sub handle is opened when
\* there is none, get_message is called once; without a message the entry
\* fails with "No message available", else the decoded value is handed to
\* the caller.
RecvOneEnter ==
    /\ cpc = "out"
    /\ scopes < MaxScopes
    /\ scopes' = scopes + 1
    /\ \E o \in Objs :
         LET r == get_message(Log([WorldOf(o) EXCEPT !.channel = TRUE],
                                  "one", ObjId(o)))
         IN  /\ handles' = [handles EXCEPT ![o].sub = TRUE]
             /\ IF r.item = 0
                THEN /\ CommitOne(o, Log(r, "nomsg", 0))
                     /\ UNCHANGED <<cpc, held, got>>
                ELSE /\ CommitOne(o, r)
                     /\ held' = [obj |-> o, tag |-> r.item]
                     /\ got' = Append(got, Decode(body[r.deliv[r.item]]))
                     /\ cpc' = "one"
    /\ UNCHANGED <<config, subq, sent, buffer, consuming, connection, gen, sess,
                   orphan, raises, faults, values, body, nameB, subs>>

\* The recv_one scope exits without an exception: the message is acked.
RecvOneExit ==
    /\ cpc = "one"
    /\ CommitOne(held.obj, Log(ack_message(WorldOf(held.obj), held.tag), "leave", 0))
    /\ held' = NoMsg
    /\ cpc' = "out"
    /\ UNCHANGED <<config, subq, sent, buffer, consuming, connection, gen, sess,
                   orphan, scopes, raises, faults, values, body, nameB, handles,
                   got, subs>>

\* The caller raises inside the recv_one scope: the message is rejected, the
\* exception is re-raised when propagate_recv_error is set (the Queue's
\* propagate_error), suppressed otherwise.
RecvOneRaise ==
    /\ cpc = "one"
    /\ raises < MaxRaises
    /\ raises' = raises + 1
    /\ CommitOne(held.obj,
                 Log(reject_message(Log(WorldOf(held.obj), "raised", held.tag),
                                    held.tag),
                     IF propagate_error THEN "reraise" ELSE "suppress", 0))
    /\ held' = NoMsg
    /\ cpc' = "out"
    /\ UNCHANGED <<config, subq, sent, buffer, consuming, connection, gen, sess,
                   orphan, scopes, faults, values, body, nameB, handles, got, subs>>

\* The application of the recv_one tests: two Queue objects, B on A's queue
\* or on another name, and values drawn from the value domain.
InitOne ==
    /\ auto_ack = TRUE
    /\ propagate_error \in BOOLEAN
    /\ prefetch = 1
    /\ mock \in BOOLEAN
    /\ sent = 0
    /\ ready = {}
    /\ deliv = <<>>
    /\ buffer = <<>>
    /\ unacked = {}
    /\ consuming = FALSE
    /\ connection = "none"
    /\ gen = NoGen
    /\ sess = FALSE
    /\ orphan = FALSE
    /\ cpc = "out"
    /\ log = <<>>
    /\ scopes = 0
    /\ raises = 0
    /\ faults = 0
    /\ values \in [1..MaxOneMsgs -> Values]
    /\ body = <<>>
    /\ other = {}
    /\ nameB \in {"q", "q-fail"}
    /\ handles = [o \in Objs |-> NoHandles]
    /\ held = NoMsg
    /\ got = <<>>
    /\ subs = <<>>
    /\ subq = RabbitMQSub_init

NextOne == SendOne \/ RecvOneEnter \/ RecvOneExit \/ RecvOneRaise

SpecOne == InitOne /\ [][NextOne]_vars

\* The prefetch of the Queue of test_51 that calls recv_one.
BigPrefetch == 20

\* A subscriber thread that has not started: q is the sub handle of its
\* Queue, ones the number of recv_one scopes it entered, held the tag of the
\* message its recv_one scope holds, nomsg whether a recv_one of the thread
\* failed with "No message available".
NewSub == [pc |-> "idle", buffer |-> <<>>, unacked |-> {}, consuming |-> FALSE,
           gen |-> NoGen, got |-> <<>>, q |-> RabbitMQSub_init, ones |-> 0,
           held |-> 0, nomsg |-> FALSE]

\* The world that the sub handle of subscriber thread s works on: the
\* broker's queue is shared, the connection and its channel are the thread's.
WorldSub(s) ==
    [ready |-> ready, deliv |-> deliv, buffer |-> subs[s].buffer,
     unacked |-> subs[s].unacked, consuming |-> subs[s].consuming, log |-> <<>>,
     gen |-> subs[s].gen, item |-> 0, out |-> "none",
     channel |-> subs[s].pc \in {"in", "ended", "one"} \/ subs[s].ones > 0,
     conn |-> "open", qos |-> subs[s].q.qos, tear |-> {}, failed |-> FALSE]

\* Write back the world of subscriber thread s.
CommitSub(s, w, pc, g) ==
    /\ ready' = w.ready
    /\ deliv' = w.deliv
    /\ subs' = [subs EXCEPT ![s].pc = pc, ![s].buffer = w.buffer,
                             ![s].unacked = w.unacked,
                             ![s].consuming = w.consuming,
                             ![s].gen = w.gen, ![s].got = g]

\* The publisher sends the messages up front, before any subscriber starts.
SendUpFront ==
    /\ sent < MaxMsgs
    /\ \A s \in DOMAIN subs : subs[s].pc = "idle" /\ subs[s].ones = 0
    /\ QueueSend("A")
    /\ UNCHANGED <<config, subq, deliv, buffer, unacked, consuming, connection, gen,
                   sess, orphan, cpc, log, scopes, raises, faults, values,
                   nameB, held, got, subs>>

\* Thread s creates its Queue and enters the scope of sub.recv(timeout).
SubRecv ==
    /\ \E s \in DOMAIN subs :
          /\ subs[s].pc = "idle"
          /\ subs[s].ones = 0
          /\ subs' = [subs EXCEPT ![s].pc = "in", ![s].gen = NewGen,
                                   ![s].q = create_sub_queue(prefetch)]
    /\ UNCHANGED <<config, subq, sent, ready, deliv, buffer, unacked, consuming,
                   connection, gen, sess, orphan, cpc, log, scopes, raises,
                   faults, values, body, other, nameB, handles, held, got>>

\* One step of list(gen) in thread s.
SubNext ==
    /\ \E s \in DOMAIN subs :
          /\ subs[s].pc = "in"
          /\ LET r == message_generator_next(WorldSub(s), FALSE)
             IN  IF r.out = "yield"
                 THEN CommitSub(s, r, "in",
                                Append(subs[s].got, Decode(body[r.deliv[r.gen.tag]])))
                 ELSE CommitSub(s, r, "ended", subs[s].got)
    /\ UNCHANGED <<config, subq, sent, buffer, unacked, consuming, connection, gen,
                   sess, orphan, cpc, log, scopes, raises, faults, values, body,
                   other, nameB, handles, held, got>>

\* Thread s leaves the scope at the end of its stream: the generator is
\* closed and the Queue closes its sub handle.
SubExit ==
    /\ \E s \in DOMAIN subs :
          /\ subs[s].pc = "ended"
          /\ CommitSub(s, close(message_generator_close(WorldSub(s))), "done",
                       subs[s].got)
    /\ UNCHANGED <<config, subq, sent, buffer, unacked, consuming, connection, gen,
                   sess, orphan, cpc, log, scopes, raises, faults, values, body,
                   other, nameB, handles, held, got>>

\* Thread s enters a recv_one scope: the first time it creates its Queue
\* (the first thread's, as in test_51, possibly with prefetch 20), whose sub
\* handle then stays open; get_message is called once, and without a message
\* the entry fails with "No message available".
SubOne ==
    /\ \E s \in DOMAIN subs :
          /\ subs[s].pc = "idle"
          /\ subs[s].ones < MaxScopes
          /\ \E p \in (IF s = 1 /\ subs[s].ones = 0 THEN {prefetch, BigPrefetch}
                                                  ELSE {prefetch}) :
                LET q == IF subs[s].ones = 0 THEN create_sub_queue(p) ELSE subs[s].q
                    r == get_message([WorldSub(s) EXCEPT !.channel = TRUE,
                                                         !.qos = q.qos])
                IN  /\ ready' = r.ready
                    /\ deliv' = r.deliv
                    /\ subs' = [subs EXCEPT
                          ![s].q = q,
                          ![s].ones = @ + 1,
                          ![s].unacked = r.unacked,
                          ![s].pc = IF r.item = 0 THEN "idle" ELSE "one",
                          ![s].held = r.item,
                          ![s].nomsg = (r.item = 0),
                          ![s].got = IF r.item = 0 THEN @
                                     ELSE Append(@, Decode(body[r.deliv[r.item]]))]
    /\ UNCHANGED <<config, subq, sent, buffer, unacked, consuming, connection, gen,
                   sess, orphan, cpc, log, scopes, raises, faults, values, body,
                   other, nameB, handles, held, got>>

\* Thread s leaves its recv_one scope without an exception: the message is
\* acked.
SubOneExit ==
    /\ \E s \in DOMAIN subs :
          /\ subs[s].pc = "one"
          /\ LET r == ack_message(WorldSub(s), subs[s].held)
             IN  /\ subs' = [subs EXCEPT ![s].pc = "idle", ![s].held = 0,
                                          ![s].unacked = r.unacked]
                 /\ ready' = r.ready
                 /\ deliv' = r.deliv
    /\ UNCHANGED <<config, subq, sent, buffer, unacked, consuming, connection, gen,
                   sess, orphan, cpc, log, scopes, raises, faults, values, body,
                   other, nameB, handles, held, got>>

\* The front-loaded test: one publisher, m subscriber threads on a broker.
InitMulti ==
    /\ auto_ack = TRUE
    /\ propagate_error = FALSE
    /\ prefetch \in 1..MaxPrefetch
    /\ mock = FALSE
    /\ sent = 0
    /\ ready = {}
    /\ deliv = <<>>
    /\ buffer = <<>>
    /\ unacked = {}
    /\ consuming = FALSE
    /\ connection = "none"
    /\ gen = NoGen
    /\ sess = FALSE
    /\ orphan = FALSE
    /\ cpc = "out"
    /\ log = <<>>
    /\ scopes = 0
    /\ raises = 0
    /\ faults = 0
    /\ values = DATA_LIST
    /\ body = <<>>
    /\ other = {}
    /\ nameB = "q"
    /\ handles = [o \in Objs |-> NoHandles]
    /\ held = NoMsg
    /\ got = <<>>
    /\ \E m \in 1..MaxSubs : subs = [s \in 1..m |-> NewSub]
    /\ subq = RabbitMQSub_init

NextMulti == SendUpFront \/ SubRecv \/ SubNext \/ SubExit

SpecMulti == InitMulti /\ [][NextMulti]_vars

\* A Queue enters sub.recv(timeout) while no other thread is inside a scope:
\* the second Queue of test_51, after the recv_one calls of the first.
SubRecvLater ==
    /\ \A s \in DOMAIN subs : subs[s].pc = "idle"
    /\ SubRecv

\* The front-loaded recv_one tests: threads that each call recv_one on their
\* own Queue (test_22, test_23), and a Queue that receives what they left
\* (test_51).
NextTake ==
    SendUpFront \/ SubOne \/ SubOneExit \/ SubRecvLater \/ SubNext \/ SubExit

SpecTake == InitMulti /\ [][NextTake]_vars

\* Mutant: close() closes the connection whatever its state, and fails on a
\* handle that is closed or was never connected.
RabbitMQ_close_Unguarded(w) ==
    IF w.conn = "open" THEN [close(w) EXCEPT !.conn = "closed"]
    ELSE [w EXCEPT !.out = "error"]

\* RabbitMQ.close() on a handle: the connection is closed when there is one
\* that is neither closed nor closing; the channel attribute is left as it
\* is.
RabbitMQ_close(w) ==
    IF w.conn = "open" THEN [close(w) EXCEPT !.conn = "closed"] ELSE w

\* The check that opens send_message, get_message, ack_message and
\* message_generator: "queue is not connected" when the handle has no
\* channel.
not_connected(w) == IF ~w.channel THEN [w EXCEPT !.out = "error"] ELSE w

\* A call on the channel of a closed connection raises in the client
\* library; the mocked channel accepts it.
Usable(w) == mock \/ w.conn = "open"

\* The operations on a handle, and the state of the handle as a number.
HandleOps == {"h.send", "h.get", "h.ack", "h.gen"}
ConnCode == IF connection = "none" THEN 0 ELSE IF connection = "open" THEN 1 ELSE 2
OpsDone == Len(SelectSeq(log, LAMBDA e : e.op \in HandleOps \cup {"h.close"}))

\* The outcome of an operation on a handle, as an event: the not-connected
\* error, the error of the client library, or none.
Outcome(w, r) ==
    IF r.out = "error" THEN Log(r, IF w.channel THEN "wrongstate" ELSE "notconnected", 0)
    ELSE r

\* Write back the world of the handle.
CommitHandle(w) ==
    /\ ready' = w.ready
    /\ deliv' = w.deliv
    /\ buffer' = w.buffer
    /\ unacked' = w.unacked
    /\ consuming' = w.consuming
    /\ connection' = w.conn
    /\ log' = w.log

\* A handle is created and connected (create_pub_queue, create_sub_queue);
\* a handle that was closed is replaced by a new one.
HConnect ==
    /\ connection # "open"
    /\ connection' = "open"
    /\ subq' = create_sub_queue(prefetch)
    /\ log' = Append(log, Ev("connect", 0))
    /\ UNCHANGED <<config, sent, ready, deliv, buffer, unacked, consuming, gen,
                   sess, orphan, cpc, scopes, raises, faults, facade, body, got>>

\* handle.close()
HClose ==
    /\ OpsDone < MaxOps
    /\ CommitHandle(Outcome(World, RabbitMQ_close(Log(World, "h.close", ConnCode))))
    /\ UNCHANGED <<config, subq, sent, gen, sess, orphan, cpc, scopes, raises,
                   faults, facade, body, got>>

\* send_message(msg) on the handle
HSend ==
    /\ OpsDone < MaxOps
    /\ sent < MaxOneMsgs
    /\ LET w == Log(World, "h.send", ConnCode)
           c == not_connected(w)
           b == send_message("q", Encode(values[sent + 1]))
       IN  IF c.out = "error" \/ ~Usable(w)
           THEN /\ CommitHandle(Outcome(w, [w EXCEPT !.out = "error"]))
                /\ UNCHANGED <<sent, body>>
           ELSE /\ CommitHandle(Log([w EXCEPT !.ready = b.ready], "publish", sent + 1))
                /\ body' = b.body
                /\ sent' = sent + 1
    /\ UNCHANGED <<config, subq, gen, sess, orphan, cpc, scopes, raises, faults,
                   facade, got>>

\* get_message() on the handle
HGet ==
    /\ OpsDone < MaxOps
    /\ LET w == Log(World, "h.get", ConnCode)
       IN  CommitHandle(Outcome(w, IF w.channel /\ ~Usable(w)
                                   THEN [w EXCEPT !.out = "error"]
                                   ELSE get_message(w)))
    /\ UNCHANGED <<config, subq, sent, gen, sess, orphan, cpc, scopes, raises,
                   faults, facade, body, got>>

\* ack_message(msg_id) on the handle, with the id of a message it holds or
\* the id 1
HAck ==
    /\ OpsDone < MaxOps
    /\ \E t \in unacked \cup {1} :
          LET w == Log(World, "h.ack", ConnCode)
          IN  CommitHandle(Outcome(w, IF w.channel /\ ~Usable(w)
                                      THEN [w EXCEPT !.out = "error"]
                                      ELSE ack_message(w, t)))
    /\ UNCHANGED <<config, subq, sent, gen, sess, orphan, cpc, scopes, raises,
                   faults, facade, body, got>>

\* message_generator(handle): a generator is created, asked for one message
\* and closed.  On a closed connection channel.consume raises.
HGen ==
    /\ OpsDone < MaxOps
    /\ LET w == Log([World EXCEPT !.gen = NewGen], "h.gen", ConnCode)
           r == message_generator_next(w, w.channel /\ ~Usable(w))
       IN  CommitHandle(Outcome(w, [message_generator_close(r) EXCEPT !.out = r.out]))
    /\ UNCHANGED <<config, subq, sent, gen, sess, orphan, cpc, scopes, raises,
                   faults, facade, body, got>>

\* A handle of the adapter used directly: not connected at first.
InitHandle ==
    /\ auto_ack \in BOOLEAN
    /\ propagate_error = TRUE
    /\ prefetch = 1
    /\ mock \in BOOLEAN
    /\ sent = 0
    /\ ready = {}
    /\ deliv = <<>>
    /\ buffer = <<>>
    /\ unacked = {}
    /\ consuming = FALSE
    /\ connection = "none"
    /\ gen = NoGen
    /\ sess = FALSE
    /\ orphan = FALSE
    /\ cpc = "out"
    /\ log = <<>>
    /\ scopes = 0
    /\ raises = 0
    /\ faults = 0
    /\ values = DATA_LIST
    /\ body = <<>>
    /\ other = {}
    /\ nameB = "q"
    /\ handles = [o \in Objs |-> NoHandles]
    /\ held = NoMsg
    /\ got = <<>>
    /\ subs = <<>>
    /\ subq = RabbitMQSub_init

NextHandle == HConnect \/ HClose \/ HSend \/ HGet \/ HAck \/ HGen

SpecHandle == InitHandle /\ [][NextHandle]_vars

\* One run of an application with one publisher and one subscriber Queue
\* of prefetch p on a broker of its own: the broker's queue, the sub handle
\* q with its channel, the generator, and what the application has seen (the
\* values received, where it stands, whether recv_one found no message).
NewRun(p) ==
    [p |-> p, pc |-> "idle", ready |-> {}, deliv |-> <<>>, buffer |-> <<>>,
     unacked |-> {}, consuming |-> FALSE, gen |-> NoGen, got |-> <<>>,
     q |-> RabbitMQSub_init, held |-> 0, nomsg |-> FALSE]

\* The world that the sub handle of run u works on.
RunWorld(u) ==
    [ready |-> u.ready, deliv |-> u.deliv, buffer |-> u.buffer,
     unacked |-> u.unacked, consuming |-> u.consuming, log |-> <<>>,
     gen |-> u.gen, item |-> 0, out |-> "none", channel |-> u.q.qos # 0,
     conn |-> "open", qos |-> u.q.qos, tear |-> {}, failed |-> FALSE]

\* Write a world back into run u.
PutRun(u, w) ==
    [u EXCEPT !.ready = w.ready, !.deliv = w.deliv, !.buffer = w.buffer,
              !.unacked = w.unacked, !.consuming = w.consuming, !.gen = w.gen]

\* The Queue opens its sub handle when it has none.
Opened(u) ==
    IF u.q.qos = 0 THEN [u EXCEPT !.q = create_sub_queue(u.p)] ELSE u

\* One operation of the application on run u.
RunStep(u, op) ==
    CASE op = "send" ->
            [u EXCEPT !.ready = @ \cup {Len(body) + 1}]
      [] op = "recv" ->
            [Opened(u) EXCEPT !.pc = "in", !.gen = NewGen]
      [] op = "next" ->
            LET r == message_generator_next(RunWorld(u), FALSE)
            IN  IF r.out = "yield"
                THEN [PutRun(u, r) EXCEPT
                         !.got = Append(@, Decode(body[r.deliv[r.gen.tag]]))]
                ELSE [PutRun(u, r) EXCEPT !.pc = "ended"]
      [] op = "exit" ->
            [PutRun(u, close(message_generator_close(RunWorld(u)))) EXCEPT
                !.pc = "idle", !.q = RabbitMQSub_init]
      [] op = "raise" ->
            LET r == message_generator_throw(RunWorld(u), FALSE)
            IN  IF propagate_error
                THEN [PutRun(u, close(r)) EXCEPT !.pc = "idle", !.q = RabbitMQSub_init]
                ELSE [PutRun(u, r) EXCEPT !.pc = "idle"]
      [] op = "one" ->
            LET o == Opened(u)
                r == get_message(RunWorld(o))
            IN  IF r.item = 0 THEN [o EXCEPT !.nomsg = TRUE]
                ELSE [PutRun(o, r) EXCEPT
                         !.pc = "one", !.held = r.item, !.nomsg = FALSE,
                         !.got = Append(@, Decode(body[r.deliv[r.item]]))]
      [] op = "leave" ->
            [PutRun(u, ack_message(RunWorld(u), u.held)) EXCEPT
                !.pc = "idle", !.held = 0]

\* The application performs the operation on both runs.
Both(op) == subs' = [k \in DOMAIN subs |-> RunStep(subs[k], op)]

\* pub.send(value)
PairSend ==
    /\ sent < MaxMsgs
    /\ Both("send")
    /\ body' = Append(body, Encode(values[sent + 1]))
    /\ sent' = sent + 1
    /\ UNCHANGED <<config, subq, ready, deliv, buffer, unacked, consuming,
                   connection, gen, sess, orphan, cpc, log, scopes, raises, faults,
                   values, other, nameB, handles, held, got>>

\* The scope of sub.recv(timeout) is entered.
PairRecv ==
    /\ subs[1].pc = "idle"
    /\ scopes < MaxScopes
    /\ scopes' = scopes + 1
    /\ Both("recv")
    /\ UNCHANGED <<config, subq, sent, ready, deliv, buffer, unacked, consuming,
                   connection, gen, sess, orphan, cpc, log, raises, faults, values,
                   body, other, nameB, handles, held, got>>

\* The caller asks the session for the next message.
PairNext ==
    /\ subs[1].pc = "in"
    /\ Both("next")
    /\ UNCHANGED <<config, subq, sent, ready, deliv, buffer, unacked, consuming,
                   connection, gen, sess, orphan, cpc, log, scopes, raises, faults,
                   values, body, other, nameB, handles, held, got>>

\* The scope exits without an exception.
PairExit ==
    /\ subs[1].pc \in {"in", "ended"}
    /\ Both("exit")
    /\ UNCHANGED <<config, subq, sent, ready, deliv, buffer, unacked, consuming,
                   connection, gen, sess, orphan, cpc, log, scopes, raises, faults,
                   values, body, other, nameB, handles, held, got>>

\* The caller raises on the message it holds.
PairRaise ==
    /\ subs[1].pc = "in"
    /\ subs[1].gen.pc = "yield"
    /\ raises < MaxRaises
    /\ raises' = raises + 1
    /\ Both("raise")
    /\ UNCHANGED <<config, subq, sent, ready, deliv, buffer, unacked, consuming,
                   connection, gen, sess, orphan, cpc, log, scopes, faults, values,
                   body, other, nameB, handles, held, got>>

\* The scope of sub.recv_one() is entered.
PairOne ==
    /\ subs[1].pc = "idle"
    /\ scopes < MaxScopes
    /\ scopes' = scopes + 1
    /\ Both("one")
    /\ UNCHANGED <<config, subq, sent, ready, deliv, buffer, unacked, consuming,
                   connection, gen, sess, orphan, cpc, log, raises, faults, values,
                   body, other, nameB, handles, held, got>>

\* The recv_one scope exits without an exception.
PairLeave ==
    /\ subs[1].pc = "one"
    /\ Both("leave")
    /\ UNCHANGED <<config, subq, sent, ready, deliv, buffer, unacked, consuming,
                   connection, gen, sess, orphan, cpc, log, scopes, raises, faults,
                   values, body, other, nameB, handles, held, got>>

\* The same application on a subscriber of prefetch p (run 1) and on a
\* subscriber of prefetch 1 (run 2).
InitPair ==
    /\ auto_ack = TRUE
    /\ propagate_error \in BOOLEAN
    /\ prefetch \in 1..MaxPrefetch \cup {BigPrefetch}
    /\ mock = FALSE
    /\ sent = 0
    /\ ready = {}
    /\ deliv = <<>>
    /\ buffer = <<>>
    /\ unacked = {}
    /\ consuming = FALSE
    /\ connection = "none"
    /\ gen = NoGen
    /\ sess = FALSE
    /\ orphan = FALSE
    /\ cpc = "out"
    /\ log = <<>>
    /\ scopes = 0
    /\ raises = 0
    /\ faults = 0
    /\ values = DATA_LIST
    /\ body = <<>>
    /\ other = {}
    /\ nameB = "q"
    /\ handles = [o \in Objs |-> NoHandles]
    /\ held = NoMsg
    /\ got = <<>>
    /\ subs = <<NewRun(prefetch), NewRun(1)>>
    /\ subq = RabbitMQSub_init

NextPair ==
    PairSend \/ PairRecv \/ PairNext \/ PairExit \/ PairRaise \/ PairOne \/ PairLeave

SpecPair == InitPair /\ [][NextPair]_vars

\* The nack tests of the adapter: a pub and a sub handle on one queue of a
\* broker that requeues.
InitNack ==
    /\ auto_ack = TRUE
    /\ propagate_error = FALSE
    /\ prefetch = 1
    /\ mock = FALSE
    /\ sent = 0
    /\ ready = {}
    /\ deliv = <<>>
    /\ buffer = <<>>
    /\ unacked = {}
    /\ consuming = FALSE
    /\ connection = "none"
    /\ gen = NoGen
    /\ sess = FALSE
    /\ orphan = FALSE
    /\ cpc = "out"
    /\ log = <<>>
    /\ scopes = 0
    /\ raises = 0
    /\ faults = 0
    /\ values = DATA_LIST
    /\ body = <<>>
    /\ other = {}
    /\ nameB = "q"
    /\ handles = [o \in Objs |-> IF o = "A" THEN [pub |-> TRUE, sub |-> TRUE]
                                            ELSE NoHandles]
    /\ held = NoMsg
    /\ got = <<>>
    /\ subs = <<>>
    /\ subq = create_sub_queue(1)

\* The messages that have been rejected (nacked_msgs and redelivered_msgs of
\* the tests).
NackedMsgs == {deliv[log[i].id] : i \in {j \in DOMAIN log : log[j].op = "nack"}}

\* One turn of the test's loop: sub.get_message(); without a message the
\* loop goes on ("waiting...").  The subscriber holds at most MaxHeld
\* messages it has not settled.
GetFromQueue ==
    /\ Cardinality(unacked) < MaxHeld
    /\ LET r == get_message(WorldOf("A"))
       IN  IF r.item = 0 THEN UNCHANGED vars
           ELSE /\ CommitOne("A", r)
                /\ got' = Append(got, Decode(body[r.deliv[r.item]]))
                /\ UNCHANGED <<config, subq, sent, buffer, consuming, connection,
                               gen, sess, orphan, cpc, scopes, raises, faults,
                               values, body, nameB, handles, held, subs>>

\* A message held that was delivered for the first time may be rejected
\* (each message at most once, as in the tests).
RejectFirst ==
    /\ \E t \in unacked :
          /\ deliv[t] \notin NackedMsgs
          /\ CommitOne("A", reject_message(WorldOf("A"), t))
    /\ UNCHANGED <<config, subq, sent, buffer, consuming, connection, gen, sess,
                   orphan, cpc, scopes, raises, faults, values, body, nameB,
                   handles, held, got, subs>>

\* A message held is acknowledged: every redelivery is, a first delivery may
\* be.
AckDelivered ==
    /\ \E t \in unacked : CommitOne("A", ack_message(WorldOf("A"), t))
    /\ UNCHANGED <<config, subq, sent, buffer, consuming, connection, gen, sess,
                   orphan, cpc, scopes, raises, faults, values, body, nameB,
                   handles, held, got, subs>>

\* pub.send_message(raw_data): up front, or between two turns of the loop.
SendNack ==
    /\ sent < MaxOneMsgs
    /\ QueueSend("A")
    /\ UNCHANGED <<config, subq, deliv, buffer, unacked, consuming, connection,
                   gen, sess, orphan, cpc, log, scopes, raises, faults, values,
                   nameB, held, got, subs>>

NextNack == SendNack \/ GetFromQueue \/ RejectFirst \/ AckDelivered

\* The test's loop keeps running: it keeps asking for messages and settles
\* each message it obtained.
SpecNack ==
    /\ InitNack
    /\ [][NextNack]_vars
    /\ WF_vars(GetFromQueue)
    /\ WF_vars(RejectFirst)
    /\ WF_vars(AckDelivered)

\* A sub handle used directly: the application creates generators with
\* message_generator() and drives them with a for loop, gen.throw() and
\* break, without the session of Queue.recv().

\* The exception that leaves the generator, as the caller sees it: 0 the
\* exception thrown in, 1 the error of the broker, 2 the exception of a
\* failed basic_nack or cancel, 3 StopIteration out of gen.throw().
RaiseCode(out) ==
    CASE out = "raise" -> 0
      [] out = "error" -> 1
      [] out = "teardown" -> 2
      [] OTHER -> 3

\* Write back the world of the handle and the caller's position.
CommitGen(w, pc) ==
    /\ Commit(w)
    /\ cpc' = pc

\* The publisher sends its next message, before or between the loops of
\* the subscriber.
GenSend ==
    /\ sent < MaxMsgs
    /\ cpc = "out"
    /\ LET b == send_message("q", Encode(values[sent + 1]))
       IN  /\ ready' = b.ready
           /\ body' = b.body
    /\ sent' = sent + 1
    /\ UNCHANGED <<config, subq, deliv, buffer, unacked, consuming, connection, gen,
                   sess, orphan, cpc, log, scopes, raises, faults, facade, got>>

\* gen = sub.message_generator(...): nothing of the body runs yet.  (After
\* its first loop the subscriber starts a further one when messages wait.)
GenStart ==
    /\ cpc = "out"
    /\ scopes = 0 \/ ready # {}
    /\ scopes < MaxScopes
    /\ scopes' = scopes + 1
    /\ gen' = NewGen
    /\ cpc' = "in"
    /\ log' = Append(log, Ev("gen", 0))
    /\ UNCHANGED <<config, subq, sent, ready, deliv, buffer, unacked, consuming,
                   connection, sess, orphan, raises, faults, facade, body, got>>

\* The for statement asks the generator for its next message: the body of
\* the loop runs with it, or the loop ends, or the generator raises.
GenNext ==
    /\ cpc \in {"in", "body"}
    /\ \E fail \in BOOLEAN, T \in SUBSET {"cancel"} :
         LET w == [Log(World, "next", gen.tag) EXCEPT !.tear = T]
             r == message_generator_next(w, fail)
             f == fail \/ r.failed
         IN  /\ (T # {}) => r.failed
             /\ f => faults < MaxFaults
             /\ faults' = IF f THEN faults + 1 ELSE faults
             /\ CASE r.out = "yield" -> CommitGen(Log(r, "recv", r.gen.tag), "body")
                  [] r.out = "stop" -> CommitGen(Log(r, "stop", 0), "out")
                  [] OTHER -> CommitGen(Log(r, "raise", RaiseCode(r.out)), "out")
    /\ UNCHANGED <<config, subq, sent, connection, sess, orphan, scopes, raises,
                   facade, body, got>>

\* gen.throw(Exception) in the body of the loop.  A message that throw()
\* returns is dropped by the caller, who stays in the body; an exception
\* that throw() raises ends the loop.
GenThrow ==
    /\ cpc = "body"
    /\ raises < MaxRaises
    /\ raises' = raises + 1
    /\ \E fail \in BOOLEAN, T \in SUBSET {"nack", "cancel"} :
         LET w == [Log(World, "throw", gen.tag) EXCEPT !.tear = T]
             r == message_generator_throw(w, fail)
             f == fail \/ r.failed
         IN  /\ (T # {}) => (r.failed /\ \A c \in T :
                                \E i \in DOMAIN r.log : r.log[i].op = c \o "fail")
             /\ fail => r.out \in {"error", "teardown"} /\ ~("nack" \in T)
             /\ f => faults < MaxFaults
             /\ faults' = IF f THEN faults + 1 ELSE faults
             /\ IF r.out = "yield"
                THEN CommitGen(Log(r, "returned", r.gen.tag), "body")
                ELSE CommitGen(Log(r, "raise", RaiseCode(r.out)), "out")
    /\ UNCHANGED <<config, subq, sent, connection, sess, orphan, scopes, facade,
                   body, got>>

\* break in the body of the loop: the for statement drops the generator,
\* and the runtime, which counts references, closes it at once.
GenBreak ==
    /\ cpc = "body"
    /\ CommitGen(message_generator_close(Log(World, "break", gen.tag)), "out")
    /\ UNCHANGED <<config, subq, sent, connection, sess, orphan, scopes, raises,
                   faults, facade, body, got>>

\* The body of the loop raises: the exception leaves the for statement,
\* which drops the generator, and the runtime closes it; nothing is thrown
\* into the generator.
GenBodyRaise ==
    /\ cpc = "body"
    /\ raises < MaxRaises
    /\ raises' = raises + 1
    /\ CommitGen(Log(message_generator_close(Log(World, "bodyraise", gen.tag)),
                     "raise", 0), "out")
    /\ UNCHANGED <<config, subq, sent, connection, sess, orphan, scopes, faults,
                   facade, body, got>>

\* The handle comes from create_sub_queue and is connected.
InitGen ==
    /\ auto_ack \in BOOLEAN
    /\ propagate_error \in BOOLEAN
    /\ mock \in BOOLEAN
    /\ prefetch \in (IF mock THEN {1} ELSE 1..MaxPrefetch)
    /\ sent = 0
    /\ ready = {}
    /\ deliv = <<>>
    /\ buffer = <<>>
    /\ unacked = {}
    /\ consuming = FALSE
    /\ connection = "open"
    /\ gen = NoGen
    /\ sess = FALSE
    /\ orphan = FALSE
    /\ cpc = "out"
    /\ log = <<>>
    /\ scopes = 0
    /\ raises = 0
    /\ faults = 0
    /\ values = DATA_LIST
    /\ body = <<>>
    /\ other = {}
    /\ nameB = "q"
    /\ handles = [o \in Objs |-> NoHandles]
    /\ held = NoMsg
    /\ got = <<>>
    /\ subs = <<>>
    /\ subq = create_sub_queue(prefetch)

NextGen == GenSend \/ GenStart \/ GenNext \/ GenThrow \/ GenBreak \/ GenBodyRaise

SpecGen == InitGen /\ [][NextGen]_vars

\* A sub handle polled with get_message: a publisher sends, the subscriber
\* takes messages one at a time and acks those it holds, in any order.

\* The subscriber calls get_message once more than there can be messages.
MaxGets == MaxMsgs + 1

\* send_message(msg) on the pub handle
PollSend ==
    /\ sent < MaxMsgs
    /\ LET b == send_message("q", Encode(values[sent + 1]))
       IN  /\ ready' = b.ready
           /\ body' = b.body
    /\ sent' = sent + 1
    /\ log' = Append(log, Ev("publish", sent + 1))
    /\ UNCHANGED <<config, subq, deliv, buffer, unacked, consuming, connection, gen,
                   sess, orphan, cpc, scopes, raises, faults, facade, got>>

\* get_message() on the sub handle
PollGet ==
    /\ Cardinality({i \in DOMAIN log : log[i].op = "get"}) < MaxGets
    /\ CommitHandle(get_message(World))
    /\ UNCHANGED <<config, subq, sent, gen, sess, orphan, cpc, scopes, raises,
                   faults, facade, body, got>>

\* ack_message(msg_id) with the id of a message the subscriber holds
PollAck ==
    /\ \E t \in unacked : CommitHandle(ack_message(World, t))
    /\ UNCHANGED <<config, subq, sent, gen, sess, orphan, cpc, scopes, raises,
                   faults, facade, body, got>>

\* Both handles are connected; the channel is a real one.
InitPoll ==
    /\ auto_ack = TRUE
    /\ propagate_error = TRUE
    /\ mock = FALSE
    /\ prefetch \in 1..MaxPrefetch
    /\ sent = 0
    /\ ready = {}
    /\ deliv = <<>>
    /\ buffer = <<>>
    /\ unacked = {}
    /\ consuming = FALSE
    /\ connection = "open"
    /\ gen = NoGen
    /\ sess = FALSE
    /\ orphan = FALSE
    /\ cpc = "out"
    /\ log = <<>>
    /\ scopes = 0
    /\ raises = 0
    /\ faults = 0
    /\ values = DATA_LIST
    /\ body = <<>>
    /\ other = {}
    /\ nameB = "q"
    /\ handles = [o \in Objs |-> NoHandles]
    /\ held = NoMsg
    /\ got = <<>>
    /\ subs = <<>>
    /\ subq = create_sub_queue(prefetch)

NextPoll == PollSend \/ PollGet \/ PollAck

SpecPoll == InitPoll /\ [][NextPoll]_vars

\* One generator drained by a for loop: the messages are sent before the
\* generator is created, the loop body returns from every message, the
\* broker does not fail.  The for statement keeps asking for the next
\* message as long as the generator has not ended.
DrainSend == cpc = "out" /\ scopes = 0 /\ GenSend

DrainStart == scopes = 0 /\ GenStart

DrainNext == GenNext /\ faults' = faults

NextDrain == DrainSend \/ DrainStart \/ DrainNext

SpecDrain == InitGen /\ [][NextDrain]_vars /\ WF_vars(DrainNext)

Next == Send \/ QueueRecv \/ Enter \/ IterNext \/ Raise \/ ExitNormal \/ Finalize

Spec == Init /\ [][Next]_vars

----------------------------------------------------------------------------
\* Reading the log.

At(op) == {i \in DOMAIN log : log[i].op = op}
Ids(op) == {log[i].id : i \in At(op)}
Times(op, t) == Len(SelectSeq(log, LAMBDA e : e = Ev(op, t)))
Acked(t) == Times("ack", t) >= 1
Nacked(t) == Times("nack", t) >= 1
ReleasedAfter(i) == \E j \in DOMAIN log : j > i /\ log[j].op \in {"cancel", "close"}
\* Index of the last event `op` among log[1..i], 0 when there is none.
RECURSIVE LastFrom(_, _)
LastFrom(op, i) ==
    IF i = 0 THEN 0 ELSE IF log[i].op = op THEN i ELSE LastFrom(op, i - 1)
\* Index of the last event `op`, 0 when there is none.
LastAt(op) == LastFrom(op, Len(log))
\* First index of the current session's events.
SessionStart == LastAt("session")
\* Index of the "session" event of the session that event k belongs to.
SessionOf(k) == LastFrom("session", k - 1)
\* The last event of the log.
Last == log[Len(log)]
\* The tags of the events `op` among log[from..to], in order.
TagsFrom(op, from, to) ==
    LET sel == SelectSeq(SubSeq(log, from, to), LAMBDA e : e.op = op)
    IN  [i \in 1..Len(sel) |-> sel[i].id]

----------------------------------------------------------------------------
C3_RaiseNacks ==
    \A t \in Ids("raised") : Times("nack", t) = 1

\* Witness of C3: the caller raised, with error propagation on and auto_ack off.
C3_Witness ==
    /\ propagate_error /\ ~auto_ack
    /\ \E t \in Ids("raised") : Nacked(t)


\* Index of the scope exit ("suppress" or "reraise") that follows event i.
ExitAfter(i) ==
    CHOOSE j \in DOMAIN log :
        /\ j > i /\ log[j].op \in {"suppress", "reraise"}
        /\ \A k \in DOMAIN log : (k > i /\ log[k].op \in {"suppress", "reraise"}) => j <= k

\* C4 (as claimed): when the caller raises inside the scope, the scope exit
\* suppresses the exception if propagate_error is off, and re-raises it, the
\* nack already issued, if propagate_error is on.
C4_SuppressOrReraise ==
    \A i \in At("raised") :
        LET j == ExitAfter(i)
        IN  /\ ~propagate_error => log[j].op = "suppress"
            /\ propagate_error =>
                  /\ log[j].op = "reraise"
                  /\ \E n \in DOMAIN log : i < n /\ n < j /\ log[n] = Ev("nack", log[i].id)


\* C5: ack-on-success.  When a session with auto_ack on has reached the end
\* of the stream (inactivity timeout) and the caller never raised in it, the
\* acks issued in the session are exactly the ids it yielded, one each and
\* in order, and it issued no nack.
C5_AckOnSuccess ==
    LET s == SessionStart
        n == Len(log)
    IN  (/\ auto_ack /\ s > 0
         /\ \E k \in At("timeout") : k > s
         /\ \A k \in At("raised") \cup At("error") : k < s)
        => /\ TagsFrom("ack", s, n) = TagsFrom("yield", s, n)
           /\ TagsFrom("recv", s, n) = TagsFrom("yield", s, n)
           /\ TagsFrom("nack", s, n) = <<>>

\* Witness of C5: such a session yielded MaxMsgs messages, all acked.
C5_Witness ==
    /\ auto_ack /\ cpc = "ended" /\ SessionStart > 0
    /\ \A k \in At("raised") \cup At("error") : k < SessionStart
    /\ Len(TagsFrom("ack", SessionStart, Len(log))) = MaxMsgs
    /\ Last.op = "cancel"

\* C6: nack-on-failure.  When the scope exits because the caller raised on
\* the k-th message of a session (auto_ack on) after returning normally from
\* the k-1 before it, the session has issued exactly the acks of messages
\* 1..k-1 and exactly one nack, that of message k.
C6_NackOnFailure ==
    LET s == SessionStart
        n == Len(log)
        handed == TagsFrom("recv", s, n)
    IN  (/\ auto_ack /\ s > 0
         /\ Last.op \in {"suppress", "reraise"}
         /\ Cardinality({k \in At("raised") : k > s}) = 1
         /\ LastAt("raised") > LastAt("enter"))
        => /\ handed # <<>>
           /\ TagsFrom("raised", s, n) = <<handed[Len(handed)]>>
           /\ TagsFrom("ack", s, n) = SubSeq(handed, 1, Len(handed) - 1)
           /\ TagsFrom("nack", s, n) = <<handed[Len(handed)]>>

\* Witness of C6: the caller raised on the third message of a session.
C6_Witness ==
    /\ auto_ack /\ SessionStart > 0
    /\ Last.op \in {"suppress", "reraise"}
    /\ Cardinality({k \in At("raised") : k > SessionStart}) = 1
    /\ Len(TagsFrom("recv", SessionStart, Len(log))) = 3
    /\ Len(TagsFrom("ack", SessionStart, Len(log))) = 2

\* No event `op` lies strictly between indices i and j of the log.
NoneBetween(op, i, j) == \A k \in At(op) : ~(i < k /\ k < j)

\* C7 (as claimed): with propagate_error off, after the caller raised on a
\* yielded message M and the scope exited, re-entering the same session
\* yields the message that follows M (with the mocked broker, which does not
\* redeliver: the next message of the list); M is not yielded again, M is
\* never acked, and a message yielded after re-entry is acked when the
\* caller returns from it.
C7_ResumeYieldsNext ==
    (mock /\ ~propagate_error /\ auto_ack) =>
        \A i \in At("raised") :
            /\ ~Acked(log[i].id)
            /\ \A j \in At("recv") :
                  (i < j /\ NoneBetween("session", i, j)) =>
                      /\ deliv[log[j].id] # deliv[log[i].id]
                      /\ NoneBetween("recv", i, j) =>
                            deliv[log[j].id] = deliv[log[i].id] + 1
                      /\ Times("next", log[j].id) >= 1 => Acked(log[j].id)

\* C8 (as claimed): after a suppressed caller exception, a new Queue.recv()
\* on the same Queue uses the retained sub handle: the handle is not closed
\* between the two scopes, no ack is issued before the second scope hands
\* out a message, the second scope yields the messages after the nacked
\* one, in order, and acks each of them.
C8_NewRecvContinues ==
    (mock /\ ~propagate_error /\ auto_ack) =>
        \A i \in At("raised"), j \in At("recv") :
            (/\ i < j
             /\ NoneBetween("recv", i, j)
             /\ NoneBetween("error", i, j)
             /\ Cardinality({k \in At("session") : i < k /\ k < j}) = 1)
            => /\ NoneBetween("close", i, j)
               /\ NoneBetween("connect", i, j)
               /\ NoneBetween("ack", i, j)
               /\ deliv[log[j].id] = deliv[log[i].id] + 1
               /\ Times("next", log[j].id) >= 1 => Acked(log[j].id)

\* C9 (as claimed): when a caller exception has been suppressed, at scope
\* exit the in-flight message has been nacked and neither a cancel of the
\* consumer nor a close of the connection has been issued.
C9_SuppressKeepsStream ==
    (log # <<>> /\ Last.op = "suppress") =>
        LET i == LastAt("raised")
        IN  /\ \E n \in At("nack") : n > i /\ log[n].id = log[i].id
            /\ \A k \in At("cancel") \cup At("close") : k < i

\* C10: with propagate_error on, a caller exception produces, in this order,
\* the nack of the in-flight message, the cancel of the consumer, the close
\* of the sub handle and the re-raise; the next Queue.recv() opens a fresh
\* sub handle; and a scope on it that runs to the end of the stream without
\* raising hands out and acks every message delivered on it, leaving none
\* waiting in the queue.
C10_PropagateThenFresh ==
    propagate_error =>
        /\ \A i \in At("raised") :
              /\ Len(log) >= i + 4
              /\ log[i + 1] = Ev("nack", log[i].id)
              /\ log[i + 2] = Ev("cancel", 0)
              /\ log[i + 3] = Ev("close", 0)
              /\ log[i + 4] = Ev("reraise", 0)
              /\ \A k \in At("session") : k > i =>
                    \E c \in At("connect") : i + 4 < c /\ c < k
        /\ \A k \in At("timeout") :
              LET c == CHOOSE x \in At("connect") :
                           x < k /\ \A y \in At("connect") : y < k => y <= x
              IN  (/\ auto_ack
                   /\ \E i \in At("raised") : i < c
                   /\ NoneBetween("raised", c, k) /\ NoneBetween("error", c, k))
                  => /\ log[k].id = 0
                     /\ TagsFrom("recv", c, k) = TagsFrom("yield", c, k)
                     /\ TagsFrom("ack", c, k) = TagsFrom("yield", c, k)
                     /\ TagsFrom("nack", c, k) = <<>>

\* Witness of C10: after a propagated caller exception a second scope on a
\* fresh sub handle received and acked a message and reached the timeout.
C10_Witness ==
    /\ propagate_error /\ auto_ack /\ cpc = "ended"
    /\ \E i \in At("raised"), c \in At("connect"), r \in At("recv"),
          a \in At("ack"), k \in At("timeout") :
          i < c /\ c < r /\ r < a /\ a < k /\ log[a].id = log[r].id

\* C11: an error raised by the broker's stream is always propagated, with
\* propagate_error on and off, whether it surfaces in a step of the iterator
\* or while the generator handles a thrown caller exception: the error is
\* followed at once by the cancel of the consumer and the close of the sub
\* handle, and only then by the re-raise; the scope is left and the
\* generator has ended.
C11_UpstreamPropagated ==
    \A i \in At("error") :
        /\ Len(log) >= i + 3
        /\ log[i + 1] = Ev("cancel", 0)
        /\ log[i + 2] = Ev("close", 0)
        /\ log[i + 3] = Ev("reraise", 0)
        /\ (Len(log) = i + 3) =>
              cpc = "out" /\ gen = NoGen /\ ~consuming /\ connection = "none"

\* Witness of C11: with propagate_error off the stream raised while a
\* message was handed out, and the error has reached the caller.
C11_Witness ==
    /\ ~propagate_error
    /\ \E i \in At("error") :
          /\ i = Len(log) - 3
          /\ \E r \in At("recv") : r < i /\ NoneBetween("session", r, i)
    /\ Last.op = "reraise"

\* C12: when the stream signals the inactivity timeout in a session in which
\* the caller has not raised, the timeout was met by a step of the iterator,
\* the consumer is cancelled at once, and the iterator ends normally (the
\* generator has ended, nothing is re-raised), whatever the number of
\* messages yielded before.
C12_TimeoutEndsStream ==
    \A k \in At("timeout") :
        NoneBetween("raised", SessionOf(k), k) =>
            /\ log[k - 1].op \in {"next", "ack"}
            /\ Len(log) > k
            /\ log[k + 1] = Ev("cancel", 0)
            /\ (Len(log) = k + 1) => cpc = "ended" /\ gen = NoGen /\ ~consuming

\* Witness of C12: a session with auto_ack off yielded two messages and
\* then met the timeout.
C12_Witness ==
    /\ ~auto_ack /\ cpc = "ended" /\ SessionStart > 0
    /\ Last.op = "cancel"
    /\ log[Len(log) - 1].op = "timeout"
    /\ Len(TagsFrom("yield", SessionStart, Len(log))) = 2
    /\ At("raised") = {}

\* The scope exit at index e of the log is the exit of a scope that reached
\* the normal end of the stream.
EndOfStreamExit(e) ==
    /\ log[e].op = "exit"
    /\ \E k \in At("timeout") : k < e /\ NoneBetween("enter", k, e)

\* Every scope so far ran without a caller exception or a broker error, and
\* every scope that was left was left at the end of the stream.
AllRoundsClean ==
    /\ At("raised") = {} /\ At("error") = {}
    /\ \A e \in At("exit") : EndOfStreamExit(e)

\* The payloads handed to the caller so far, in order.
Received ==
    LET tags == TagsFrom("recv", 1, Len(log))
    IN  [i \in DOMAIN tags |-> deliv[tags[i]]]

\* C13: facade closing policy.  A scope of Queue.recv() that reached the
\* normal end of the stream closes the sub handle at its exit, and every
\* later Queue.recv() connects a fresh one first.  When every round so far
\* was such a scope (auto_ack on), each timeout found nothing waiting in
\* the queue, no message was handed out twice, and at the end of a round
\* the messages handed out so far together with those sent since the timeout
\* are exactly the messages sent: each round hands out exactly the messages
\* sent since the previous round ended.
C13_ClosingPolicy ==
    /\ \A e \in At("exit") :
          EndOfStreamExit(e) =>
              /\ log[e - 1] = Ev("close", 0)
              /\ (Len(log) = e) => connection = "none"
              /\ \A s \in At("session") :
                    s > e => \E c \in At("connect") : e < c /\ c < s
    /\ (auto_ack /\ AllRoundsClean) =>
          /\ \A k \in At("timeout") : log[k].id = 0
          /\ Cardinality(Range(Received)) = Len(Received)
          /\ cpc \in {"ended", "out"} =>
                /\ Range(Received) \cap ready = {}
                /\ Range(Received) \cup ready = 1..sent

\* Witness of C13: two rounds of send, recv until timeout; the first handed
\* out the first message only, the second the second message only.
C13_Witness ==
    /\ auto_ack /\ AllRoundsClean /\ ~mock
    /\ cpc = "ended"
    /\ Cardinality(At("timeout")) = 2
    /\ Cardinality(At("exit")) = 1
    /\ Received = <<1, 2>>
    /\ \E e \in At("exit"), r \in At("recv") :
          r < e /\ \A x \in At("recv") : x # r => x > e

\* Index of the event at which the delivery with tag t was yielded.
YieldAt(t) == CHOOSE i \in At("yield") : log[i].id = t

\* C14: with auto_ack off no ack is ever issued, however many messages are
\* yielded and returned from; each message handed out after a normal return
\* is the delivery that follows the previous one on the channel (the next
\* delivery tag, unless a cancel returned deliveries to the broker
\* meanwhile), and as long as nothing was requeued the payloads come in the
\* order they were sent; a caller exception on a yielded message still
\* nacks that message, once.
C14_NoAutoAck ==
    ~auto_ack =>
        /\ At("ack") = {}
        /\ \A i \in At("raised") :
              /\ log[i + 1] = Ev("nack", log[i].id)
              /\ Times("nack", log[i].id) = 1
        /\ LET requeues == At("nack") \cup At("cancel") \cup At("close")
           IN  \A j \in At("yield") :
                  /\ (/\ log[j - 1].op = "next" /\ log[j - 1].id # 0
                      /\ NoneBetween("cancel", YieldAt(log[j - 1].id), j))
                        => log[j].id = log[j - 1].id + 1
                  /\ (\A x \in requeues : x > j) => deliv[log[j].id] = log[j].id

\* Witness of C14: with auto_ack off the caller returned normally from two
\* messages and raised on the third, which was nacked.
C14_Witness ==
    /\ ~auto_ack
    /\ Len(TagsFrom("recv", 1, Len(log))) = 3
    /\ Cardinality({i \in At("next") : log[i].id # 0}) = 2
    /\ \E i \in At("raised") : deliv[log[i].id] = 3 /\ Nacked(log[i].id)

\* C19: order on first delivery.  While Queue.recv() sessions (auto_ack on)
\* of a single subscriber run without caller exception, broker error or
\* early exit, so that nothing is nacked or requeued, the i-th value handed
\* to the caller is the i-th value sent; and at the end of the stream every
\* value sent before the timeout has been handed out: exactly n values for
\* n messages sent.
C19_FirstDeliveryOrder ==
    (auto_ack /\ AllRoundsClean) =>
        /\ Len(got) <= sent
        /\ \A i \in DOMAIN got : got[i] = values[i]
        /\ cpc = "ended" =>
              /\ log[LastAt("timeout")].id = 0
              /\ Len(got) + Cardinality(ready) = sent

\* Witness of C19: one session handed out MaxMsgs values, the values sent,
\* in order, and reached the end of the stream.
C19_Witness ==
    /\ auto_ack /\ AllRoundsClean /\ ~mock
    /\ cpc = "ended" /\ At("exit") = {}
    /\ sent = MaxMsgs /\ ready = {}
    /\ got = SubSeq(values, 1, MaxMsgs)

----------------------------------------------------------------------------
\* Queue.recv_one (specification SpecOne).

\* The step is the entry of a recv_one scope by Queue object o.
EntersOne(o) ==
    /\ cpc = "out"
    /\ Len(log') > Len(log)
    /\ log'[Len(log) + 1] = Ev("one", ObjId(o))

\* C15: a recv_one scope entered on a queue that has a message makes one
\* get_message call, which returns a message not obtained before, and hands
\* the decoded body of that message to the caller; its normal exit issues
\* one ack, of that message, which had neither ack nor nack before, and no
\* nack.
C15_RecvOneAcks ==
    [][ /\ \A o \in Objs :
              (EntersOne(o) /\ ReadyOf(NameOf(o)) # {}) =>
                  /\ cpc' = "one"
                  /\ held'.obj = o /\ held'.tag # 0
                  /\ held'.tag \notin Ids("get")
                  /\ log' = log \o <<Ev("one", ObjId(o)), Ev("get", held'.tag)>>
                  /\ got' = Append(got, Decode(body[deliv'[held'.tag]]))
        /\ (cpc = "one" /\ log'[Len(log')].op = "leave") =>
              /\ log' = log \o <<Ev("ack", held.tag), Ev("leave", 0)>>
              /\ ~Acked(held.tag) /\ ~Nacked(held.tag)
              /\ held.tag \notin unacked'
      ]_vars

\* Witness of C15: two recv_one scopes have exited normally, each after one
\* get_message and with one ack.
C15_Witness ==
    /\ Cardinality(At("leave")) = 2
    /\ Cardinality(At("get")) = 2 /\ Cardinality(At("ack")) = 2
    /\ At("nack") = {}
    /\ Last.op = "leave"

C17_RecvOneEmpty ==
    /\ [][ \A o \in Objs :
              (EntersOne(o) /\ ReadyOf(NameOf(o)) = {}) =>
                  /\ log' = log \o <<Ev("one", ObjId(o)), Ev("get", 0), Ev("nomsg", 0)>>
                  /\ cpc' = "out"
                  /\ UNCHANGED <<held, got, ready, other, unacked, deliv>>
         ]_vars
    /\ []((nameB = "q-fail" /\ ~handles["B"].pub) =>
              /\ other = {}
              /\ \A i \in At("one") :
                    log[i].id = ObjId("B") => log[i + 1] = Ev("get", 0)
              /\ ready \cup Range(deliv) = 1..sent)

\* Witness of C17: A sent to "q"; recv_one on B, which names "q-fail",
\* failed; recv_one on A then obtained the message and acked it.
C17_Witness ==
    /\ nameB = "q-fail" /\ ~handles["B"].pub
    /\ Len(log) = 7
    /\ SubSeq(log, 1, 4) = <<Ev("one", 2), Ev("get", 0), Ev("nomsg", 0), Ev("one", 1)>>
    /\ log[5].op = "get" /\ log[5].id # 0
    /\ log[6].op = "ack"
    /\ got = <<values[1]>>

\* C18: round trip.  Every value handed to the caller of recv_one equals
\* the value that was sent as the message obtained, and the message
\* obtained is the oldest one waiting in the queue of that name: on a fresh
\* queue send(v) followed by recv_one hands v, through the sender's own
\* Queue object or through another one of the same name.
C18_RoundTrip ==
    /\ [](/\ Len(got) = Len(deliv)
           /\ \A t \in DOMAIN got : got[t] = values[deliv[t]])
    /\ [][ \A o \in Objs :
              (EntersOne(o) /\ ReadyOf(NameOf(o)) # {}) =>
                  got' = Append(got, values[Min(ReadyOf(NameOf(o)))])
         ]_vars

\* Witness of C18: A sent the text "1" and then the number 1; B, of the
\* same name, was handed the text "1" by its recv_one.
C18_Witness ==
    /\ nameB = "q" /\ handles["A"].pub /\ ~handles["B"].pub
    /\ values[1] = Val("str", <<49>>) /\ values[2] = Val("int", <<1>>)
    /\ sent = 2
    /\ cpc = "one" /\ held.obj = "B"
    /\ got = <<Val("str", <<49>>)>>

----------------------------------------------------------------------------
\* Concurrent subscribers (specification SpecMulti).

\* All values received by the subscriber threads 1..k, concatenated.
RECURSIVE Concat(_)
Concat(k) == IF k = 0 THEN <<>> ELSE Concat(k - 1) \o subs[k].got

\* C20: n messages are sent up front and m subscriber threads, each with
\* its own Queue, run recv(timeout) to the end of the stream without
\* raising, for m smaller than, equal to and larger than n.  No value is
\* ever received twice; and when all threads have finished, the received
\* lists together hold exactly n values and every value sent is among them.
C20_EachToOneSubscriber ==
    LET all == Concat(Len(subs))
    IN  /\ Cardinality(Range(all)) = Len(all)
        /\ Range(all) \subseteq {values[p] : p \in 1..sent}
        /\ (\A s \in DOMAIN subs : subs[s].pc = "done") =>
              /\ Len(all) = sent
              /\ \A p \in 1..sent : values[p] \in Range(all)

\* Witness of C20: MaxMsgs messages, two threads finished, each thread
\* received some of the messages.
C20_Witness ==
    /\ Len(subs) = 2 /\ sent = MaxMsgs
    /\ \A s \in DOMAIN subs : subs[s].pc = "done" /\ subs[s].got # <<>>

\* C23 (as claimed): on a real broker, which requeues a nacked message at
\* its place, after the caller raised on a message M inside a Queue.recv()
\* scope the next value handed out (same session re-entered, new recv() on
\* the same Queue, or new recv() after the propagated error) is M again,
\* and the value handed out after it, if the caller returned from M, is the
\* one sent after M.
C23_RedeliveryFirst ==
    (~mock /\ prefetch = 1 /\ auto_ack) =>
        \A i \in At("raised"), j \in At("recv") :
            (i < j /\ NoneBetween("recv", i, j)) =>
                /\ deliv[log[j].id] = deliv[log[i].id]
                /\ \A k \in At("recv") :
                      (j < k /\ NoneBetween("recv", j, k)
                             /\ \E n \in At("next") : j < n /\ n < k) =>
                          deliv[log[k].id] = deliv[log[i].id] + 1

\* C29 (as claimed): when the stream raises as it is asked for the next
\* message while the message yielded before is neither acked nor nacked (the
\* caller returned from it with auto_ack off), that message is nacked before
\* the error is propagated.
C29_InFlightNackedOnError ==
    \A e \in At("error") :
        (e > 1 /\ log[e - 1].op = "next" /\ log[e - 1].id > 0) =>
            \A r \in At("reraise") :
                (e < r /\ NoneBetween("reraise", e, r)) =>
                    \E n \in At("nack") : e < n /\ n < r /\ log[n].id = log[e - 1].id

\* C30 (as claimed): every ack issued in a receive session carries the id of
\* a message handed to the caller before; a delivery that was only fetched
\* or buffered is never acked, and neither is the timeout marker (id 0).
C30_AcksOnlyHandedOut ==
    \A a \in At("ack") :
        /\ log[a].id # 0
        /\ \E h \in At("recv") : h < a /\ log[h].id = log[a].id

RECURSIVE SumOnes(_)
SumOnes(k) == IF k = 0 THEN 0 ELSE SumOnes(k - 1) + subs[k].ones

\* C21: n messages are sent up front and threads, each on its own Queue,
\* enter recv_one scopes concurrently.  No message is received twice, and
\* as long as no more scopes were entered than messages were sent every one
\* of them succeeded: the number of scopes that obtained a message is the
\* smaller of the number of scopes entered and the number of messages sent.
\* So n scopes receive the n messages, each exactly once, and a further
\* recv_one fails with "No message available".
C21_ConcurrentRecvOne ==
    LET all == Concat(Len(subs))
    IN  (\A s \in DOMAIN subs : subs[s].pc \in {"idle", "one"}) =>
            /\ \A i, j \in DOMAIN all : all[i] = all[j] => i = j
            /\ Range(all) \subseteq {values[i] : i \in 1..sent}
            /\ Len(all) = (IF SumOnes(Len(subs)) < sent THEN SumOnes(Len(subs))
                                                     ELSE sent)
            /\ \A s \in DOMAIN subs : subs[s].nomsg => Len(all) = sent

\* As many threads as messages received one message each, and a further
\* scope failed.
C21_Witness ==
    /\ sent >= 2
    /\ Cardinality({s \in DOMAIN subs : Len(subs[s].got) = 1 /\ subs[s].pc = "idle"})
          = sent
    /\ \E s \in DOMAIN subs : subs[s].nomsg /\ subs[s].got = <<>>

\* C26: a Queue with a large prefetch takes messages with recv_one and a
\* second Queue then receives with recv(timeout) until its stream ends: the
\* values received by all Queues together are the values sent, each once;
\* the open sub handle of the first Queue withholds nothing.
C26_NothingWithheld ==
    LET all == Concat(Len(subs))
    IN  (\E s \in DOMAIN subs : subs[s].pc = "done") =>
            /\ Len(all) = sent
            /\ Range(all) = {values[i] : i \in 1..sent}

\* The first Queue, with prefetch 20, received two messages with recv_one
\* and the second Queue received the rest.
C26_Witness ==
    /\ Len(subs) >= 2
    /\ subs[1].q.qos = BigPrefetch
    /\ subs[1].ones = 2
    /\ Len(subs[1].got) = 2
    /\ subs[2].pc = "done"
    /\ subs[2].got # <<>>

\* C22: on a broker that requeues, with front-loaded or interleaved sends,
\* every message rejected through reject_message is eventually delivered
\* again, and when every redelivery is acknowledged every message sent is
\* eventually acknowledged, so that the set of acknowledged messages ends up
\* equal to the set of messages sent.
C22_RedeliveredAfterNack ==
    \A p \in 1..MaxOneMsgs :
        /\ (p \in NackedMsgs) ~> (Cardinality({t \in DOMAIN deliv : deliv[t] = p}) >= 2)
        /\ (p <= sent) ~> (\E a \in At("ack") : deliv[log[a].id] = p)
        /\ [](\A a \in At("ack") : deliv[log[a].id] <= sent)

\* Every message was sent, rejected once, delivered again and acknowledged,
\* and the subscriber held two messages when it rejected the first.
C22_Witness ==
    /\ sent = MaxOneMsgs
    /\ {deliv[log[a].id] : a \in At("ack")} = 1..sent
    /\ NackedMsgs = 1..sent
    /\ Len(deliv) = 2 * sent
    /\ deliv[2] = 2

\* The events between the handle operation at index i of the log and the
\* next operation on the handle.
AfterCall(i) ==
    LET later == {k \in DOMAIN log : k > i /\ log[k].op \in
                     HandleOps \cup {"h.close", "connect"}}
        j == IF later = {} THEN Len(log) + 1 ELSE Min(later)
    IN  {log[k].op : k \in (i + 1)..(j - 1)}

\* C27 (as claimed): send_message, get_message, ack_message and
\* message_generator on a handle that was never connected or has been closed
\* fail with the not-connected error and perform no operation on the broker.
C27_NotConnectedError ==
    \A i \in DOMAIN log :
        (log[i].op \in HandleOps /\ log[i].id # 1) =>
            /\ "notconnected" \in AfterCall(i)
            /\ AfterCall(i) \subseteq {"notconnected", "error"}

\* C28: close() is total and idempotent.  On every reachable handle close()
\* raises nothing and leaves no open connection, and a second close() changes
\* nothing: closing twice leaves the handle and the broker as closing once,
\* and closing a handle that was never connected leaves it as it was.
C28_CloseIdempotent ==
    LET c1 == RabbitMQ_close(World)
        c2 == RabbitMQ_close(c1)
    IN  /\ c1.out # "error" /\ c2.out # "error"
        /\ c1.conn # "open"
        /\ c2 = c1
        /\ connection # "open" => c1 = World
        /\ \A i \in DOMAIN log :
              (log[i].op = "h.close" /\ log[i].id # 1) => AfterCall(i) = {}

\* A handle with unacknowledged deliveries was closed, which released them,
\* and closed again.
C28_Witness ==
    /\ connection = "closed"
    /\ ready # {}
    /\ \E i, j \in DOMAIN log :
          /\ i < j
          /\ log[i] = Ev("h.close", 1)
          /\ log[j] = Ev("h.close", 2)
          /\ \E k \in DOMAIN log : k < i /\ log[k].op = "get" /\ log[k].id > 0
                                   /\ ~Acked(log[k].id)

\* What the application sees of a run.
View(u) == [pc |-> u.pc, got |-> u.got, nomsg |-> u.nomsg]

\* C25 (as claimed): for every prefetch p, a run of one publisher and one
\* subscriber shows the application the same sequence of received values as
\* the same run with prefetch 1.
C25_PrefetchIndependent ==
    subs[1].got = subs[2].got

\* C25 (amended): as long as the caller raises no exception inside a scope
\* (so that nothing is nacked), the run with prefetch p shows the
\* application what the same run with prefetch 1 shows: the same values in
\* the same order, the same ends of stream and the same "no message"
\* failures; and a recv_one that obtains the last message sent, when every
\* message before it was delivered once and received, returns the value just
\* sent.
C25_PrefetchIndependentNoNack ==
    raises = 0 =>
        /\ View(subs[1]) = View(subs[2])
        /\ (subs[1].pc = "one" /\ subs[1].deliv = [i \in 1..sent |-> i]
                               /\ Len(subs[1].got) = sent) =>
              subs[1].got[sent] = values[sent]

\* A subscriber with prefetch above 1, which had deliveries buffered when it
\* left a scope early, has received every value sent, the last with recv_one.
C25_Witness ==
    /\ raises = 0
    /\ prefetch > 1
    /\ sent = MaxMsgs
    /\ subs[1].pc = "one"
    /\ Len(subs[1].got) > sent
    /\ subs[1].got[Len(subs[1].got)] = values[sent]

\* Index of the "gen" event of the generator run that event k belongs to,
\* and index of the last event of the run created at index g.
RunOf(k) == LastFrom("gen", k)
RunEnd(g) ==
    LET later == {i \in At("gen") : i > g}
    IN  IF later = {} THEN Len(log) ELSE Min(later) - 1

\* The delivery yielded at index j was acked or nacked before index k.
SettledBetween(j, k) ==
    \E i \in (j + 1)..(k - 1) :
        log[i] \in {Ev("ack", log[j].id), Ev("nack", log[j].id)}

\* The deliveries the current generator run has yielded and neither acked
\* nor nacked.
InFlight ==
    {log[j].id : j \in {y \in At("yield") : y > LastAt("gen")}}
        \ (Ids("ack") \cup Ids("nack"))

\* C31: with auto_ack on, whenever a generator yields a message, every
\* message the same generator run yielded before has already been acked or
\* nacked (the ack of message i precedes the hand-out of message i+1), so
\* at most one message of the run is in flight.
C31_AckBeforeNextHandOut ==
    auto_ack =>
        /\ \A g \in At("gen") :
              LET ys == {y \in (g + 1)..RunEnd(g) : log[y].op = "yield"}
              IN  \A j, k \in ys : j < k => SettledBetween(j, k)
        /\ Cardinality(InFlight) <= 1

\* Witness of C31: one run (auto_ack on) has yielded three messages; the
\* first was nacked after a suppressed exception, the second acked, the
\* third is in flight.
C31_Witness ==
    /\ auto_ack /\ scopes = 1 /\ cpc = "body"
    /\ TagsFrom("yield", 1, Len(log)) = <<1, 2, 3>>
    /\ Nacked(1) /\ Acked(2)
    /\ InFlight = {3}

\* C32 (as claimed): when the caller breaks out of the loop over
\* message_generator (auto_ack on, nothing thrown or raised) while it holds
\* message M and more messages wait in the queue, M is acked, the consumer
\* is cancelled, and no message after M is acked.
C32_BreakAcksInFlight ==
    (/\ auto_ack /\ Len(log) >= 2
     /\ log[Len(log) - 1].op = "break"
     /\ At("throw") = {} /\ At("bodyraise") = {}
     /\ ready # {}) =>
        LET m == log[Len(log) - 1].id
        IN  /\ Acked(m)
            /\ Last = Ev("cancel", 0) /\ ~consuming
            /\ \A t \in Ids("ack") : t <= m

\* The indices of the log at which the body of a loop over a generator
\* created with propagate_error off raised.
BodyRaised == IF propagate_error THEN {} ELSE At("bodyraise")

C34_ThrowNeverRaises ==
    (~propagate_error /\ faults = 0) =>
        /\ \A k \in At("throw") :
              /\ \A r \in At("raise") : r < k
              /\ Nacked(log[k].id) /\ ~Acked(log[k].id)
              /\ \A y \in At("yield") :
                    y > k => \E n \in At("next") : k < n /\ n < y
        /\ \A n \in At("next") :
              (auto_ack /\ log[n].id > 0) =>
                  (Len(log) > n /\ log[n + 1] = Ev("ack", log[n].id))
        /\ \A e \in At("stop") : log[e - 1] = Ev("cancel", 0)

\* The failed calls of the teardown: a basic_nack or a cancel that raised.
TeardownFailures == At("nackfail") \cup At("cancelfail")

\* Index of the call of the caller (next or throw) in which event f lies,
\* and index of the event with which that call ended.
CallOf(f) == IF LastFrom("throw", f) > LastFrom("next", f)
             THEN LastFrom("throw", f) ELSE LastFrom("next", f)
CallEnd(f) ==
    Min({e \in DOMAIN log :
            e > f /\ log[e].op \in {"raise", "returned", "stop", "recv"}})

\* C35 (as claimed): when the basic_nack of the message in flight, or the
\* cancel of the consumer, raises while the generator is handling an
\* exception of the caller or an error of the broker, that failure is
\* swallowed: the caller sees the error of the broker, else the exception
\* it threw (propagate_error on), else no exception at all.
C35_OriginalErrorDominates ==
    \A f \in TeardownFailures :
        LET c == CallOf(f)
            e == CallEnd(f)
            upstream == \E u \in At("error") : c < u /\ u < f
        IN  (upstream \/ log[c].op = "throw") =>
                IF upstream THEN log[e] = Ev("raise", 1)
                ELSE IF propagate_error THEN log[e] = Ev("raise", 0)
                ELSE log[e].op # "raise"

\* How many events `op` lie before index i of the log, and how many
\* get_message calls before index i returned a message.
CountBefore(op, i) == Cardinality({j \in At(op) : j < i})
TakenBefore(i) == Cardinality({j \in At("get") : j < i /\ log[j].id # 0})

\* C36: get_message returns None exactly when the queue holds no message
\* (every message sent so far has been taken), whatever the prefetch count
\* and however many messages the handle holds unacknowledged: it never waits
\* for an ack; the messages it returns are the messages sent, in send
\* order.  So n + 1 calls after n sends, with no ack or nack in between,
\* return the n messages in order and then None.
C36_GetUntilNone ==
    \A g \in At("get") :
        LET k == TakenBefore(g)
        IN  /\ (log[g].id = 0) <=> (CountBefore("publish", g) = k)
            /\ (log[g].id # 0) => (log[g].id = k + 1 /\ deliv[k + 1] = k + 1)

\* Witness of C36: two messages sent, then three calls of get_message on a
\* handle with prefetch 1 and no ack: message 1, message 2, None.
C36_Witness ==
    /\ prefetch = 1 /\ sent = 2 /\ At("ack") = {}
    /\ TagsFrom("get", 3, Len(log)) = <<1, 2, 0>>
    /\ Len(log) = 5
    /\ unacked = {1, 2}

\* C37: termination.  With the n messages of the queue sent before the
\* generator is created, no later send, and a loop body that returns from
\* every message, a generator created with auto_ack on ends: the loop ends
\* normally after the inactivity marker, the generator has yielded exactly
\* the n messages, and its consumer is cancelled.
C37_DrainTerminates ==
    (auto_ack /\ cpc = "in") ~>
        (/\ cpc = "out" /\ gen = NoGen /\ ~consuming
         /\ Len(log) >= 3
         /\ Last = Ev("stop", 0)
         /\ log[Len(log) - 1] = Ev("cancel", 0)
         /\ log[Len(log) - 2].op = "timeout"
         /\ TagsFrom("yield", 1, Len(log)) = [i \in 1..sent |-> i]
         /\ deliv = [i \in 1..sent |-> i])

\* Witness of C37: three messages were queued; the generator yielded the
\* three of them, met the timeout and cancelled its consumer.
C37_Witness ==
    /\ auto_ack /\ ~mock /\ sent = 3 /\ cpc = "out" /\ scopes = 1
    /\ Last = Ev("stop", 0)
    /\ TagsFrom("yield", 1, Len(log)) = <<1, 2, 3>>
    /\ ~consuming /\ unacked = {}

\* C38 (as claimed): ack_message acknowledges cumulatively: after the ack
\* of the highest delivery tag N the handle holds, no message with a tag up
\* to N is left unacknowledged on the channel.
C38_AckCumulative ==
    (/\ log # <<>>
     /\ Last.op = "ack"
     /\ \A t \in unacked : t < Last.id) => unacked = {}

\* The events of the generator run created at index g of the log, and the
\* calls of channel.cancel() among them (a call that raised included).
RunEvents(g) == (g + 1)..RunEnd(g)
CancelsOf(g) == {i \in RunEvents(g) : log[i].op \in {"cancel", "cancelfail"}}

\* The run created at index g has ended: it is not the generator the caller
\* still iterates over.
Ended(g) == g < LastAt("gen") \/ cpc = "out"

\* C39: a generator run that has ended has issued channel.cancel() exactly
\* once, and it did so on one of its exit paths: right after the inactivity
\* marker, after the error of the broker, after the nack of a caller
\* exception that is propagated (or the failed nack), or when the generator
\* was closed at a break or a raising loop body.  A run that is still alive,
\* suspended at a yield, after a suppressed caller exception as well, has
\* issued no cancel.  Within a run nothing is acked, nacked or yielded after
\* the cancel.
C39_CancelOncePerRun ==
    \A g \in At("gen") :
        LET cs == CancelsOf(g)
        IN  /\ Cardinality(cs) = (IF Ended(g) THEN 1 ELSE 0)
            /\ \A c \in cs :
                  /\ log[c - 1].op \in {"timeout", "error", "nack", "nackfail",
                                        "break", "bodyraise"}
                  /\ (log[c - 1].op = "nack") => propagate_error
                  /\ \A i \in (c + 1)..RunEnd(g) :
                        log[i].op \notin {"ack", "nack", "nackfail", "yield"}

\* Witness of C39: a first run ended at the inactivity timeout with its one
\* cancel; the second run, with propagate_error off, is suspended at a yield
\* after a suppressed caller exception and has issued none.
C39_Witness ==
    /\ ~propagate_error /\ scopes = 2 /\ cpc = "body"
    /\ Last.op = "returned"
    /\ Cardinality(At("cancel")) = 1
    /\ \E t \in At("timeout") : t < LastAt("gen") /\ log[t + 1] = Ev("cancel", 0)
    /\ LastAt("nack") > LastAt("gen")

\* The nacks the generator issued, a call that raised included.
NacksIssued == At("nack") \cup At("nackfail")

\* C40: every nack the generator issues carries the delivery tag of the
\* message handed out at that moment, the last one the same run yielded;
\* no delivery is nacked twice, and none that was acked is nacked.
C40_NackIsForHeldMessage ==
    \A n \in NacksIssued :
        LET y == LastFrom("yield", n)
        IN  /\ y > RunOf(n)
            /\ log[n].id = log[y].id
            /\ \A m \in NacksIssued : log[m].id = log[n].id => m = n
            /\ ~Acked(log[n].id)

\* Witness of C40: with auto_ack on a run yielded two messages; the first
\* was acked at the caller's return, the second nacked at the caller's
\* exception.
C40_Witness ==
    /\ auto_ack /\ scopes = 1
    /\ TagsFrom("yield", 1, Len(log)) = <<1, 2>>
    /\ TagsFrom("ack", 1, Len(log)) = <<1>>
    /\ TagsFrom("nack", 1, Len(log)) = <<2>>

====
